---- MODULE Spec2Model ----
(***************************************************************************)
(* Alberta Business Launchpad (ab-business-portal): the Express proxy in   *)
(* front of the Calgary business-licence open-data set.                    *)
(*                                                                         *)
(* The module models                                                       *)
(*   - the two visibility transformers (toPublicRecord, toStaffRecord),    *)
(*   - JSON.stringify / JSON.parse as the cache and the responses use it,  *)
(*   - CacheService (in-memory fallback, Redis backend, buildKey),         *)
(*   - the request handlers of public.routes.ts and staff.routes.ts with   *)
(*     the JWT middleware in front of the staff route,                     *)
(*   - the retry policy of the adapter's HTTP client,                      *)
(*   - the login and refresh routes,                                       *)
(*   - the client's hooks useBusinessData (under MapView),                 *)
(*     useAddressSearch (over useDebounce) and useGeolocation.             *)
(*                                                                         *)
(* Specifications:                                                         *)
(*   SpecXform  the transformers applied to arbitrary BusinessRecords      *)
(*   Spec       requests handled concurrently (one step per await)         *)
(*   SpecSeq    the same handlers, one request at a time, with TTL expiry  *)
(*              and the Redis connection coming and going                  *)
(*   SpecGate   one request at a time, of every shape: the middleware and  *)
(*              the validation in front of the handlers                    *)
(*   SpecCache  get, set and invalidate called on CacheService while the   *)
(*              Redis client connects, fails, errors and recovers          *)
(*   SpecBackend  requests to one endpoint over the same CacheService      *)
(*   SpecKey    CacheService.buildKey on pairs of argument lists           *)
(*   SpecRetry  one call of the adapter's HTTP client under axios-retry    *)
(*   SpecAdapter  fetchByBoundingBox, fetchByRadius and fetchCategories    *)
(*              called on the adapter, over that client                    *)
(*   SpecUpstream  a request whose handler awaits the adapter over the     *)
(*              retrying client                                            *)
(*   SpecBody   the same, the upstream answering with any body             *)
(*   SpecTtl    public and staff requests, one at a time, while the clock  *)
(*              runs and entries expire                                    *)
(*   SpecAuth   POST /auth/login and POST /auth/refresh                    *)
(*   SpecMapView  MapView: map moves, selections and the fetches of        *)
(*              useBusinessData, answered in any order                     *)
(*   SpecAddressSearch  useAddressSearch: typing, the debounce timer, the  *)
(*              search effect and its fetches                              *)
(*   SpecGeolocation  useGeolocation: locate, its callbacks, clearError    *)
(***************************************************************************)
EXTENDS Integers, Sequences, FiniteSets, TLC

VARIABLES
  \* --- transformer harness (SpecXform) ---
  tIn,        \* the BusinessRecords handed to the transformers
  tRan,       \* which of "public", "staff", "json" have been computed
  tPub,       \* toPublicRecords(tIn)
  tInSwap,    \* tIn with the _raw of every record replaced
  tPubSwap,   \* toPublicRecords(tInSwap)
  tStaff,     \* toStaffRecords(tIn)
  tJson,      \* JSON.stringify(tPub)
  \* --- the server ---
  phase,      \* "boot" until cacheService.connect() has returned, then "serving"
  usingRedis, \* CacheService.usingRedis: the backend is the RedisBackend
  redisReady, \* RedisBackend.ready
  redisUp,    \* the connection to the Redis server works
  memStore,   \* InMemoryBackend.store: key -> entry
  redisStore, \* the keys held by the Redis server: key -> entry
  req,        \* the requests in progress, by slot
  seen,       \* history: the <<endpoint, parameters>> requested so far
  calm,       \* history: the last cache operation was served by a working
              \* backend and nothing has happened to the cache since
  preflight,  \* how connect() went: "none" before it, then "test", "ready",
              \* "refused" or "timeout"
  \* --- callers of CacheService, buildKey and the adapter's HTTP client ---
  op,         \* the last call of CacheService.get / set / invalidate
  shadow,     \* history: key -> the value of its last set still in force
  keyIn,      \* two argument triples given to buildKey
  keyOut,     \* the keys buildKey gave for them
  call,       \* one call of the adapter's axios client, with its retries
  \* --- the auth routes and the client (React hooks of the map view) ---
  session,    \* the tokens issued by /auth/login and /auth/refresh, and the
              \* last answer of the two routes
  biz,        \* useBusinessData and the MapView state over it
  addr,       \* useAddressSearch with its useDebounce
  geo         \* useGeolocation

xvars == <<tIn, tRan, tPub, tInSwap, tPubSwap, tStaff, tJson>>
svars == <<phase, usingRedis, redisReady, redisUp, memStore, redisStore, req, seen, calm,
           preflight>>
hvars == <<op, shadow, keyIn, keyOut, call>>
cvars == <<session, biz, addr, geo>>
vars == <<xvars, svars, hvars, cvars>>

(***************************************************************************)
(* JavaScript values.  Every value carries its type tag, so that values of *)
(* different types can sit in one object and be compared.                  *)
(***************************************************************************)
Null == <<"null">>
Undefined == <<"undef">>
Str(s) == <<"str", s>>
Num(n) == <<"num", n>>
Obj(f) == <<"obj", f>>
Arr(s) == <<"arr", s>>

EmptyObj == Obj(<<>>)

\* no call of the cache service yet; the fields after result are history
NoOp ==
  [name |-> "none", key |-> <<>>, value |-> Null, result |-> Null,
   raised |-> FALSE, warned |-> FALSE, wrote |-> "none",
   viaRedis |-> FALSE, ready |-> FALSE, up |-> FALSE, corrupt |-> FALSE,
   expected |-> Null]

\* no call of the HTTP client yet
NoArgs == [lat |-> Undefined, lng |-> Undefined, radiusMetres |-> Undefined, limit |-> Undefined]

IdleCall ==
  [pc |-> "idle", attempts |-> 0, retryCount |-> 0, seen |-> <<>>, last |-> "none",
   result |-> "none", method |-> "none", args |-> NoArgs, dollarLimit |-> Undefined,
   data |-> <<>>, shape |-> "none", value |-> <<>>]

HIdle ==
  /\ op = NoOp
  /\ shadow = [k \in {} |-> Null]
  /\ keyIn = <<>>
  /\ keyOut = <<>>
  /\ call = IdleCall

\* nobody has logged in
NoSession == [issued |-> [t \in {} |-> Null], last |-> [route |-> "none"]]

\* MapView and useBusinessData as mounted
IdleBiz ==
  [businesses |-> <<>>, businessesLoading |-> FALSE, error |-> Null,
   radius |-> 1000, selectedCoords |-> Null, selectedCategory |-> Null,
   flyToTarget |-> Null, inflight |-> <<>>,
   shown |-> "none", lastOk |-> <<>>, last |-> [op |-> "none"]]

\* useGeolocation as mounted
IdleGeo ==
  [status |-> "idle", error |-> Null, api |-> "unknown", pending |-> <<>>,
   last |-> [op |-> "none"]]

\* useAddressSearch as mounted: its effect has run on the empty query
IdleAddr ==
  [inputValue |-> "", debounced |-> "", timer |-> Null, isSelected |-> FALSE,
   suggestions |-> <<>>, status |-> "idle", ranWith |-> <<"", FALSE>>,
   cleanup |-> FALSE, requests |-> <<>>,
   quiet |-> FALSE, asked |-> FALSE, last |-> [op |-> "none"]]

CIdle ==
  /\ session = NoSession
  /\ biz = IdleBiz
  /\ addr = IdleAddr
  /\ geo = IdleGeo

\* a ?? b
Nullish(a, b) == IF a = Null \/ a = Undefined THEN b ELSE a

\* o.k for an object given as a function from keys: undefined when absent
Field(o, k) == IF k \in DOMAIN o THEN o[k] ELSE Undefined

\* the function f without key k
Without(f, k) == [q \in DOMAIN f \ {k} |-> f[q]]

\* the function f with key k set to v (added when absent)
With(f, k, v) == [q \in DOMAIN f \cup {k} |-> IF q = k THEN v ELSE f[q]]

(***************************************************************************)
(* publicBusinessTransformer.ts                                            *)
(***************************************************************************)
PublicKeys ==
  {"id", "name", "category", "licenseType", "status",
   "lat", "lng", "issueDate", "province", "source"}

\* a transformer that forgets to leave the raw payload out
toPublicRecordLeaky(record) ==
  [k \in PublicKeys \cup (DOMAIN record \cap {"_raw"}) |-> Field(record, k)]

\* a transformer that reads a public field out of the raw payload
toPublicRecordNameFromRaw(record) ==
  [k \in PublicKeys |->
     IF k = "name" /\ Field(record, "_raw") # Undefined
                  /\ "owner_name" \in DOMAIN Field(record, "_raw")[2]
     THEN Field(record, "_raw")[2]["owner_name"]
     ELSE Field(record, k)]

\* the object literal of toPublicRecord: ten named properties, each read
\* from the same-named property of the record
toPublicRecord(record) ==
  [k \in PublicKeys |-> Field(record, k)]

toPublicRecords(records) ==
  [i \in DOMAIN records |-> toPublicRecord(records[i])]

(***************************************************************************)
(* staffBusinessTransformer.ts                                             *)
(***************************************************************************)
\* a transformer that drops the payload instead of renaming it
toStaffRecordDropsRaw(record) ==
  With(Without(record, "_raw"), "raw", EmptyObj)

\* const { _raw, ...rest } = record; return { ...rest, raw: _raw ?? {} }
toStaffRecord(record) ==
  With(Without(record, "_raw"), "raw", Nullish(Field(record, "_raw"), EmptyObj))

toStaffRecords(records) ==
  [i \in DOMAIN records |-> toStaffRecord(records[i])]

(***************************************************************************)
(* JSON.stringify and JSON.parse.  A JSON text is kept as the tree of its  *)
(* tokens: <<"J_obj", members>> with the members <<key, text>> in order,   *)
(* <<"J_arr", elements>>, <<"J_str", s>>, <<"J_num", n>>, <<"J_null">>.    *)
(* The objects of this program are all built by fixed literals and         *)
(* spreads, so the member order of an object shape is fixed; KeyOrder is   *)
(* that order.                                                             *)
(***************************************************************************)
KeyOrder ==
  <<"id", "name", "category", "licenseType", "status", "lat", "lng",
    "issueDate", "province", "count", "source", "_raw", "raw",
    "getbusid", "tradename", "licencetypes", "jobstatusdesc", "first_iss_dt",
    "point", "type", "coordinates", "owner_name", "business_phone",
    "owner_email", "error">>

MemberKeys(f) ==
  SelectSeq(KeyOrder, LAMBDA k : k \in DOMAIN f /\ f[k] # Undefined)

RECURSIVE Stringify(_)
\* JSON.stringify(v): a property holding undefined is left out, an array
\* element holding undefined becomes null, NaN becomes null, undefined
\* itself gives undefined
Stringify(v) ==
  CASE v[1] = "obj" ->
         LET keys == MemberKeys(v[2])
         IN  <<"J_obj", [i \in 1..Len(keys) |-> <<keys[i], Stringify(v[2][keys[i]])>>]>>
    [] v[1] = "arr" ->
         <<"J_arr", [i \in DOMAIN v[2] |->
                      IF v[2][i] = Undefined THEN <<"J_null">> ELSE Stringify(v[2][i])]>>
    [] v[1] = "str" -> <<"J_str", v[2]>>
    [] v[1] = "num" -> <<"J_num", v[2]>>
    [] v[1] = "null" -> <<"J_null">>
    [] v[1] = "nan" -> <<"J_null">>
    [] OTHER -> Undefined

RECURSIVE Parse(_)
\* JSON.parse(t) of a well-formed text
Parse(t) ==
  CASE t[1] = "J_obj" ->
         Obj([k \in {t[2][i][1] : i \in DOMAIN t[2]} |->
               Parse(t[2][CHOOSE i \in DOMAIN t[2] : t[2][i][1] = k][2])])
    [] t[1] = "J_arr" -> Arr([i \in DOMAIN t[2] |-> Parse(t[2][i])])
    [] t[1] = "J_str" -> Str(t[2])
    [] t[1] = "J_num" -> Num(t[2])
    [] OTHER -> Null

RECURSIVE Atoms(_)
\* every string that occurs in a JSON text, as a key or as a string value
Atoms(t) ==
  CASE t[1] = "J_obj" ->
         UNION {{t[2][i][1]} \cup Atoms(t[2][i][2]) : i \in DOMAIN t[2]}
    [] t[1] = "J_arr" -> UNION {Atoms(t[2][i]) : i \in DOMAIN t[2]}
    [] t[1] = "J_str" -> {t[2]}
    [] OTHER -> {}

\* an array of objects, from a sequence of records
ArrOf(records) == Arr([i \in DOMAIN records |-> Obj(records[i])])

(***************************************************************************)
(* The transformers on arbitrary records (SpecXform)                       *)
(***************************************************************************)
MaxRecs == 2

Sentinel == "SENTINEL-7f3a"

\* raw payloads: PII, a sentinel, nothing
RawPii == Obj([owner_name |-> Str("Jane Doe"), business_phone |-> Str("403-555-0100")])
RawSentinel == Obj([owner_name |-> Str(Sentinel)])

\* what the _raw property of a record may be: a payload, present but
\* undefined (the property is optional), or absent
RawOptions == {RawPii, RawSentinel, EmptyObj, Undefined, <<"absent">>}

WithRaw(base, raw) ==
  IF raw = <<"absent">> THEN Without(base, "_raw") ELSE With(base, "_raw", raw)

BaseRecord(id, pos) ==
  [id |-> Str(id), name |-> Str("Acme Coffee Co"), category |-> Str("Food Service"),
   licenseType |-> Str("Business"), status |-> Str("Active"),
   lat |-> IF pos THEN Num(51) ELSE Null, lng |-> IF pos THEN Num(-114) ELSE Null,
   issueDate |-> IF pos THEN Str("2023-01-15") ELSE Null,
   province |-> Str("AB"), source |-> Str("calgary")]

\* BusinessRecords, one of them with a property outside the interface
BusinessRecords ==
  {WithRaw(BaseRecord(id, pos), raw) :
     id \in {"BL-001", "BL-002"}, pos \in BOOLEAN, raw \in RawOptions}
  \cup {With(WithRaw(BaseRecord("BL-003", TRUE), RawPii), "owner_email", Str(Sentinel))}

\* strings that the sample records hold only outside the ten public fields
RawOnlyAtoms ==
  {"_raw", "raw", "owner_name", "business_phone", "owner_email",
   "Jane Doe", "403-555-0100", Sentinel}

SeqsUpTo(S, n) == UNION {[1..m -> S] : m \in 0..n}

XInit ==
  /\ tIn \in SeqsUpTo(BusinessRecords, MaxRecs)
  /\ tRan = {}
  /\ tPub = <<>>
  /\ tInSwap = <<>>
  /\ tPubSwap = <<>>
  /\ tStaff = <<>>
  /\ tJson = Null
  /\ phase = "boot"
  /\ usingRedis = FALSE
  /\ redisReady = FALSE
  /\ redisUp = FALSE
  /\ memStore = [k \in {} |-> Null]
  /\ redisStore = [k \in {} |-> Null]
  /\ req = <<>>
  /\ seen = {}
  /\ calm = TRUE
  /\ preflight = "none"
  /\ HIdle /\ CIdle

\* toPublicRecords on the records, and on the same records with other payloads
RunPublic ==
  /\ "public" \notin tRan
  /\ tRan' = tRan \cup {"public"}
  /\ tPub' = toPublicRecords(tIn)
  /\ \E raw \in RawOptions :
       tInSwap' = [i \in DOMAIN tIn |-> WithRaw(tIn[i], raw)]
  /\ tPubSwap' = toPublicRecords(tInSwap')
  /\ UNCHANGED <<tIn, tStaff, tJson>>
  /\ UNCHANGED <<svars, hvars, cvars>>

RunStaff ==
  /\ "staff" \notin tRan
  /\ tRan' = tRan \cup {"staff"}
  /\ tStaff' = toStaffRecords(tIn)
  /\ UNCHANGED <<tIn, tPub, tInSwap, tPubSwap, tJson>>
  /\ UNCHANGED <<svars, hvars, cvars>>

\* JSON.stringify(toPublicRecords(records)), as the tests and res.json do
SerializePublic ==
  /\ "public" \in tRan
  /\ "json" \notin tRan
  /\ tRan' = tRan \cup {"json"}
  /\ tJson' = Stringify(ArrOf(tPub))
  /\ UNCHANGED <<tIn, tPub, tInSwap, tPubSwap, tStaff>>
  /\ UNCHANGED <<svars, hvars, cvars>>

XNext == RunPublic \/ RunStaff \/ SerializePublic

SpecXform == XInit /\ [][XNext]_vars

(***************************************************************************)
(* Strings whose characters matter (cache keys) are sequences of           *)
(* one-character strings.                                                  *)
(***************************************************************************)
Lower ==
  <<"a", "b", "c", "d", "e", "f", "g", "h", "i", "j", "k", "l", "m",
    "n", "o", "p", "q", "r", "s", "t", "u", "v", "w", "x", "y", "z">>
Digits == <<"0", "1", "2", "3", "4", "5", "6", "7", "8", "9">>
HexDigits == Digits \o <<"a", "b", "c", "d", "e", "f">>

Range(f) == {f[i] : i \in DOMAIN f}

\* String.prototype.charCodeAt for the characters the keys are made of
charCodeAt(c) ==
  CASE c \in Range(Lower) -> 96 + (CHOOSE i \in DOMAIN Lower : Lower[i] = c)
    [] c \in Range(Digits) -> 47 + (CHOOSE i \in DOMAIN Digits : Digits[i] = c)
    [] c = "\"" -> 34
    [] c = "," -> 44
    [] c = "-" -> 45
    [] c = ":" -> 58
    [] c = "{" -> 123
    [] c = "}" -> 125

RECURSIVE NatStr(_)
NatStr(n) == IF n < 10 THEN <<Digits[n + 1]>> ELSE NatStr(n \div 10) \o <<Digits[(n % 10) + 1]>>

\* the JSON text of an integer
NumStr(n) == IF n < 0 THEN <<"-">> \o NatStr(-n) ELSE NatStr(n)

Quoted(chars) == <<"\"">> \o chars \o <<"\"">>

\* a < b in the order of Array.prototype.sort() on strings (by code unit)
RECURSIVE LexLess(_, _)
LexLess(a, b) ==
  IF a = <<>> THEN b # <<>>
  ELSE IF b = <<>> THEN FALSE
  ELSE IF charCodeAt(Head(a)) # charCodeAt(Head(b))
       THEN charCodeAt(Head(a)) < charCodeAt(Head(b))
       ELSE LexLess(Tail(a), Tail(b))

\* Object.keys(params).sort(): the keys in ascending order
RECURSIVE SortKeys(_)
SortKeys(keys) ==
  IF keys = {} THEN <<>>
  ELSE LET least == CHOOSE k \in keys : \A q \in keys \ {k} : LexLess(k, q)
       IN  <<least>> \o SortKeys(keys \ {least})

(***************************************************************************)
(* CacheService.buildKey (services/CacheService.ts)                        *)
(***************************************************************************)
\* JSON.stringify(params, sortedKeys): the members named by the replacer
\* array, in its order; a member holding undefined is left out, NaN and
\* null are written null.  params maps key (a character sequence) to Num(n),
\* Str(chars), NaN or Undefined.
RECURSIVE StableMembers(_, _)
StableMembers(params, keys) ==
  IF keys = <<>> THEN <<>>
  ELSE LET k == Head(keys)
           rest == StableMembers(params, Tail(keys))
           v == params[k]
           text == Quoted(k) \o <<":">> \o
                   (CASE v[1] = "num" -> NumStr(v[2])
                      [] v[1] \in {"nan", "null"} -> <<"n", "u", "l", "l">>
                      [] OTHER -> Quoted(v[2]))
       IN  IF v = Undefined THEN rest
           ELSE IF rest = <<>> THEN text
           ELSE text \o <<",">> \o rest

StableStringify(params) ==
  <<"{">> \o StableMembers(params, SortKeys(DOMAIN params)) \o <<"}">>

\* a ^ b for 0 <= a, b < 2^n
RECURSIVE XorBits(_, _, _)
XorBits(a, b, n) ==
  IF n = 0 THEN 0
  ELSE ((a + b) % 2) + 2 * XorBits(a \div 2, b \div 2, n - 1)

\* One round of the loop: hash = ((hash << 5) + hash) ^ charCode, on the
\* 32-bit pattern of hash kept as two 16-bit halves <<high, low>>.  The
\* shift, the sum and the xor of the source all act modulo 2^32 (the sum
\* is exact in a double and ToInt32 reduces it), and a character code
\* below 128 touches the low seven bits only.
Djb2Round(h, code) ==
  LET low33 == h[2] * 33
      low == low33 % 65536
      high == (h[1] * 33 + low33 \div 65536) % 65536
  IN  <<high, (low - (low % 128)) + XorBits(low % 128, code, 7)>>

\* let hash = 5381; for (let i = 0; i < stable.length; i++) ...
\* Loop[<<high, low, i>>] is the hash at the end of the loop when it
\* stands before character i with hash <<high, low>>.
Djb2(chars) ==
  LET Loop[st \in (0..65535) \X (0..65535) \X (1..(Len(chars) + 1))] ==
        IF st[3] > Len(chars) THEN <<st[1], st[2]>>
        ELSE Loop[Djb2Round(<<st[1], st[2]>>, charCodeAt(chars[st[3]])) \o <<st[3] + 1>>]
  IN  Loop[<<0, 5381, 1>>]

RECURSIVE HexNat(_)
HexNat(n) == IF n < 16 THEN <<HexDigits[n + 1]>> ELSE HexNat(n \div 16) \o <<HexDigits[(n % 16) + 1]>>

\* four hexadecimal digits, zero-padded
Hex4(n) ==
  <<HexDigits[(n \div 4096) + 1], HexDigits[((n \div 256) % 16) + 1],
    HexDigits[((n \div 16) % 16) + 1], HexDigits[(n % 16) + 1]>>

\* (hash >>> 0).toString(16): no leading zeros
HashHex(h) == IF h[1] = 0 THEN HexNat(h[2]) ELSE HexNat(h[1]) \o Hex4(h[2])

\* a key built without the endpoint in it
buildKeyNoEndpoint(source, endpoint, params) ==
  source \o <<":">> \o <<":">> \o HashHex(Djb2(StableStringify(params)))

\* `${source}:${endpoint}:${(hash >>> 0).toString(16)}`
buildKey(source, endpoint, params) ==
  source \o <<":">> \o endpoint \o <<":">> \o HashHex(Djb2(StableStringify(params)))

(***************************************************************************)
(* Query validation: the zod schemas of public.routes.ts / staff.routes.ts *)
(*                                                                         *)
(* A query-string value is <<"absent">>, <<"empty">> (the empty string),   *)
(* <<"junk">> (text that is no numeral) or <<"int", n>> (the numeral of    *)
(* n); coordinates are whole degrees in this model.                        *)
(***************************************************************************)
NaN == <<"nan">>

\* z.coerce: Number(input).  Number(undefined) and Number('abc') are NaN,
\* Number('') is 0
Coerce(q) ==
  CASE q[1] = "int" -> Num(q[2])
    [] q[1] = "empty" -> Num(0)
    [] OTHER -> NaN

\* z.coerce.number().min(lo).max(hi): <<ok, value>>
ZNumber(q, lo, hi) ==
  LET v == Coerce(q)
  IN  IF v # NaN /\ lo <= v[2] /\ v[2] <= hi THEN <<TRUE, v>> ELSE <<FALSE, v>>

\* z.coerce.number()[.int()].positive().max(hi).default(dflt): the default
\* replaces an absent input before the coercion
ZPositive(q, hi, dflt) ==
  IF q[1] = "absent" THEN <<TRUE, Num(dflt)>>
  ELSE LET v == Coerce(q)
       IN  IF v # NaN /\ 0 < v[2] /\ v[2] <= hi THEN <<TRUE, v>> ELSE <<FALSE, v>>

\* z.string().optional(): absent gives undefined
ZOptionalString(q) ==
  CASE q[1] = "absent" -> <<TRUE, Undefined>>
    [] q[1] = "str" -> <<TRUE, Str(q[2])>>
    [] OTHER -> <<FALSE, Null>>

\* property names, as the characters buildKey hashes
KNorth == <<"n", "o", "r", "t", "h">>
KSouth == <<"s", "o", "u", "t", "h">>
KEast == <<"e", "a", "s", "t">>
KWest == <<"w", "e", "s", "t">>
KLimit == <<"l", "i", "m", "i", "t">>
KLat == <<"l", "a", "t">>
KLng == <<"l", "n", "g">>
KRadius == <<"r", "a", "d", "i", "u", "s">>
KArea == <<"a", "r", "e", "a">>

\* a schema's safeParse: success, and the data the handler destructures
Parsed(fields) ==
  [success |-> \A k \in DOMAIN fields : fields[k][1],
   data |-> [k \in DOMAIN fields |-> fields[k][2]]]

\* bboxSchema; the limit's maximum and default differ between the routes
bboxSchema(query, maxLimit, dfltLimit) ==
  Parsed((KNorth :> ZNumber(query.north, -90, 90))
      @@ (KSouth :> ZNumber(query.south, -90, 90))
      @@ (KEast :> ZNumber(query.east, -180, 180))
      @@ (KWest :> ZNumber(query.west, -180, 180))
      @@ (KLimit :> ZPositive(query.limit, maxLimit, dfltLimit)))

nearbySchema(query) ==
  Parsed((KLat :> ZNumber(query.lat, -90, 90))
      @@ (KLng :> ZNumber(query.lng, -180, 180))
      @@ (KRadius :> ZPositive(query.radius, 50000, 1000))
      @@ (KLimit :> ZPositive(query.limit, 500, 500)))

categoriesSchema(query) ==
  Parsed((KArea :> ZOptionalString(query.area))
      @@ (KLimit :> ZPositive(query.limit, 500, 100)))

\* the four cached endpoints
Endpoints == {"bbox", "nearby", "categories", "staff"}
PublicEndpoints == {"bbox", "nearby", "categories"}

safeParse(ep, query) ==
  CASE ep = "bbox" -> bboxSchema(query, 2000, 500)
    [] ep = "staff" -> bboxSchema(query, 5000, 1000)
    [] ep = "nearby" -> nearbySchema(query)
    [] ep = "categories" -> categoriesSchema(query)

\* a handler that goes on whatever safeParse says
rejectsNothing(parsed) == FALSE

\* if (!parsed.success) { res.status(400)...; return; }
rejects(parsed) == ~parsed.success

\* the 'calgary' source and the endpoint names given to buildKey
SourceCalgary == <<"c", "a", "l", "g", "a", "r", "y">>

endpointName(ep) ==
  CASE ep = "bbox" -> <<"b", "b", "o", "x">>
    [] ep = "nearby" -> <<"n", "e", "a", "r", "b", "y">>
    [] ep = "categories" -> <<"c", "a", "t", "e", "g", "o", "r", "i", "e", "s">>
    [] ep = "staff" -> <<"s", "t", "a", "f", "f", "-", "b", "b", "o", "x">>

\* CacheService.buildKey('calgary', <endpoint>, { ...parsed.data })
cacheKeyOf(ep, data) == buildKey(SourceCalgary, endpointName(ep), data)

(***************************************************************************)
(* jwtAuth.middleware: requireJwt, requireRole                             *)
(*                                                                         *)
(* An Authorization header is <<"none">>, <<"malformed">> (does not start  *)
(* with 'Bearer '), or <<"bearer", token>>; a token is <<"invalid">> (bad  *)
(* signature or not a JWT), <<"expired">> or <<"valid", role>>.            *)
(***************************************************************************)
Roles == {"staff", "admin", "viewer"}

AuthHeaders ==
  {<<"none">>, <<"malformed">>, <<"bearer", <<"invalid">>>>, <<"bearer", <<"expired">>>>}
  \cup {<<"bearer", <<"valid", role>>>> : role \in Roles}

\* requireJwt: 401, or next() with req.user set to the verified payload
\* (its role is all the model keeps)
requireJwt(header) ==
  IF header[1] # "bearer"
  THEN [status |-> 401, user |-> Null, error |-> "Missing or malformed Authorization header"]
  ELSE IF header[2][1] = "expired"
  THEN [status |-> 401, user |-> Null, error |-> "Token expired"]
  ELSE IF header[2][1] # "valid"
  THEN [status |-> 401, user |-> Null, error |-> "Invalid token"]
  ELSE [status |-> 0, user |-> Str(header[2][2]), error |-> ""]

\* a requireRole that lets every authenticated user through
requireRoleAny(role, user) ==
  IF user = Null THEN [status |-> 401, error |-> "Unauthenticated"]
  ELSE [status |-> 0, error |-> ""]

\* requireRole(role): 401 without req.user, 403 unless the user's role is
\* the required one or 'admin', else next()
requireRole(role, user) ==
  IF user = Null THEN [status |-> 401, error |-> "Unauthenticated"]
  ELSE IF user[2] # role /\ user[2] # "admin"
  THEN [status |-> 403, error |-> "Insufficient permissions"]
  ELSE [status |-> 0, error |-> ""]

\* the middleware chain in front of the handler: status 0 when the handler
\* runs.  Only the staff route has one.
middleware(ep, header) ==
  IF ep # "staff" THEN [status |-> 0, error |-> ""]
  ELSE LET jwt == requireJwt(header)
       IN  IF jwt.status # 0 THEN [status |-> jwt.status, error |-> jwt.error]
           ELSE requireRole("staff", jwt.user)

\* res.status(s).json({ error: message }), as the text sent
errorBody(message) == Stringify(Obj([error |-> Str(message)]))

(***************************************************************************)
(* CalgaryBusinessLicenseAdapter                                           *)
(*                                                                         *)
(* A call of the adapter either throws (the upstream failed for good) or   *)
(* gets the rows the upstream sent.                                        *)
(***************************************************************************)
\* rows of the open-data set: one complete, one without point and trade
\* name, one somewhere else
Soc1 ==
  [getbusid |-> Str("BL-001"), tradename |-> Str("Acme Coffee Co"),
   licencetypes |-> Str("RETAIL DEALER"), jobstatusdesc |-> Str("Renewal Licensed"),
   first_iss_dt |-> Str("2023-01-15"),
   point |-> Obj([type |-> Str("Point"), coordinates |-> Arr(<<Num(-114), Num(51)>>)]),
   owner_name |-> Str("Jane Doe"), business_phone |-> Str("403-555-0100")]

Soc2 ==
  [getbusid |-> Str("BL-002"), licencetypes |-> Str("FOOD SERVICE"),
   owner_name |-> Str(Sentinel)]

Soc3 ==
  [getbusid |-> Str("BL-003"), tradename |-> Str("Far Away Ltd"),
   point |-> Obj([type |-> Str("Point"), coordinates |-> Arr(<<Num(-113), Num(52)>>)]),
   owner_email |-> Str("far@example.com")]

RowSets == {<<Soc1, Soc2>>, <<Soc3, Soc1>>}

\* rows of the grouped query; count arrives as a numeral
Cat1 == [licencetypes |-> Str("RETAIL DEALER"), count |-> Str(<<"1", "2">>)]
Cat2 == [licencetypes |-> Str(""), count |-> Str(<<"3">>)]
Cat3 == [licencetypes |-> Str("FOOD SERVICE"), count |-> Str(<<"7">>)]

CategoryRowSets == {<<Cat1, Cat2>>, <<Cat3, Cat1>>}

UUIDs == {"uuid-a"}

\* a[i] of a JavaScript array (i from 0): undefined beyond its end
ElementAt(a, i) == IF i + 1 \in DOMAIN a[2] THEN a[2][i + 1] ELSE Undefined

\* if (r.point && r.point.coordinates): the point is an object and its
\* coordinates an array (an empty one is truthy as well)
toBusinessRecord(r, uuid) ==
  LET hasPoint == /\ Field(r, "point")[1] = "obj"
                  /\ Field(Field(r, "point")[2], "coordinates")[1] = "arr"
      coordinates == Field(r, "point")[2]["coordinates"]
  IN  [id |-> Nullish(Field(r, "getbusid"), Str(uuid)),
       name |-> Nullish(Field(r, "tradename"), Str("Unknown Business")),
       category |-> Nullish(Field(r, "licencetypes"), Str("Uncategorized")),
       licenseType |-> Nullish(Field(r, "licencetypes"), Str("")),
       status |-> Nullish(Field(r, "jobstatusdesc"), Str("Active")),
       lat |-> IF hasPoint THEN ElementAt(coordinates, 1) ELSE Null,
       lng |-> IF hasPoint THEN ElementAt(coordinates, 0) ELSE Null,
       issueDate |-> Nullish(Field(r, "first_iss_dt"), Null),
       province |-> Str("AB"),
       source |-> Str("calgary"),
       _raw |-> Obj(r)]

\* data.map((r) => this.toBusinessRecord(r))
fetchByBoundingBox(rows, uuid) ==
  [i \in DOMAIN rows |-> toBusinessRecord(rows[i], uuid)]

Abs(n) == IF n < 0 THEN -n ELSE n

\* Math.cos(toRad(lat)) in thousandths, for the whole degrees of latitude
\* Alberta lies in
CosThousandths(lat) ==
  CASE lat = 49 -> 656 [] lat = 50 -> 643 [] lat = 51 -> 629 [] lat = 52 -> 616
    [] lat = 53 -> 602 [] lat = 54 -> 588 [] lat = 55 -> 574 [] lat = 56 -> 559
    [] lat = 57 -> 545 [] lat = 58 -> 530 [] lat = 59 -> 515 [] lat = 60 -> 500

\* Math.sqrt on naturals, rounded down
RECURSIVE SqrtBetween(_, _, _)
SqrtBetween(n, lo, hi) ==
  IF lo = hi THEN lo
  ELSE LET mid == (lo + hi + 1) \div 2
       IN  IF mid * mid <= n THEN SqrtBetween(n, mid, hi) ELSE SqrtBetween(n, lo, mid - 1)

Sqrt(n) == SqrtBetween(n, 0, 40000)

\* R * Math.PI / 180 with R = 6_371_000: the metres in a degree of arc
MetresPerDegree == 111195

\* The great-circle distance in metres between points on whole degrees, a
\* few degrees apart.  For such small angles sin x = x and atan2(sqrt(a),
\* sqrt(1 - a)) = sqrt(a) to five digits, so that
\*   R * 2 * sqrt(a) = R * (PI / 180) * sqrt(dLat^2 + cos cos dLng^2)
\* with dLat, dLng in degrees; the result is within half a percent of
\* the source's.
haversine(lat1, lng1, lat2, lng2) ==
  LET dLat == Abs(lat2 - lat1)
      dLng == Abs(lng2 - lng1)
      a == 1000000 * dLat * dLat
           + CosThousandths(lat1) * CosThousandths(lat2) * dLng * dLng
  IN  ((MetresPerDegree \div 5) * Sqrt(a)) \div 200

\* const SOCRATA_PAGE_LIMIT = 1000
SOCRATA_PAGE_LIMIT == 1000

\* a filter that lets records without a position through
keepsInRadiusOrUnplaced(lat, lng, radiusMetres, r) ==
  \/ r.lat[1] # "num"
  \/ r.lng[1] # "num"
  \/ /\ \A v \in {lat, lng, radiusMetres} : v[1] = "num"
     /\ haversine(lat[2], lng[2], r.lat[2], r.lng[2]) <= radiusMetres[2]

\* a filter that takes the radius for kilometres
keepsInRadiusKilometres(lat, lng, radiusMetres, r) ==
  /\ r.lat # Null
  /\ r.lng # Null
  /\ \A v \in {lat, lng, radiusMetres, r.lat, r.lng} : v[1] = "num"
  /\ haversine(lat[2], lng[2], r.lat[2], r.lng[2]) <= radiusMetres[2] \div 1000

\* (r) => r.lat !== null && r.lng !== null && haversine(lat, lng, r.lat!,
\* r.lng!) <= radiusMetres: arithmetic on undefined gives NaN, and a
\* comparison with NaN is false
keepsInRadius(lat, lng, radiusMetres, r) ==
  /\ r.lat # Null
  /\ r.lng # Null
  /\ \A v \in {lat, lng, radiusMetres, r.lat, r.lng} : v[1] = "num"
  /\ haversine(lat[2], lng[2], r.lat[2], r.lng[2]) <= radiusMetres[2]

\* a slice that keeps one record more than asked
sliceOneMore(records, limit) ==
  IF limit[1] # "num" \/ limit[2] < 0 THEN <<>>
  ELSE SubSeq(records, 1, IF limit[2] + 1 < Len(records) THEN limit[2] + 1 ELSE Len(records))

\* records.slice(0, limit) for a limit that is not negative; slice(0, NaN)
\* is empty
slice(records, limit) ==
  IF limit[1] # "num" \/ limit[2] < 0 THEN <<>>
  ELSE SubSeq(records, 1, IF limit[2] < Len(records) THEN limit[2] ELSE Len(records))

\* const { lat, lng, radiusMetres, limit = SOCRATA_PAGE_LIMIT } = query
limitOf(limit) == IF limit = Undefined THEN Num(SOCRATA_PAGE_LIMIT) ELSE limit

\* a request for no more rows than the caller's limit
upstreamLimitSame(limit) == limitOf(limit)

\* this.fetchByBoundingBox(bbox, limit * 2): the $limit of the request
upstreamLimit(limit) ==
  IF limitOf(limit)[1] = "num" THEN Num(limitOf(limit)[2] * 2) ELSE NaN

\* records.filter(...haversine(...) <= radiusMetres).slice(0, limit)
\* on the values of the query
fetchByRadius(lat, lng, radiusMetres, limit, rows, uuid) ==
  LET records == fetchByBoundingBox(rows, uuid)
      near == SelectSeq(records, LAMBDA r : keepsInRadius(lat, lng, radiusMetres, r))
  IN  slice(near, limitOf(limit))

\* parseInt(chars, 10): the value of the leading digits, NaN without one
parseInt(chars) ==
  LET lead == CHOOSE n \in 0..Len(chars) :
                /\ \A i \in 1..n : chars[i] \in Range(Digits)
                /\ n < Len(chars) => chars[n + 1] \notin Range(Digits)
      Value[i \in 0..lead] ==
        IF i = 0 THEN 0 ELSE 10 * Value[i - 1] + (charCodeAt(chars[i]) - 48)
  IN  IF lead = 0 THEN NaN ELSE Num(Value[lead])

\* data.filter((r) => r.licencetypes).map(...)
fetchCategories(rows) ==
  LET kept == SelectSeq(rows, LAMBDA r :
                Field(r, "licencetypes") \notin {Undefined, Null, Str("")})
  IN  [i \in DOMAIN kept |->
         [category |-> kept[i].licencetypes,
          count |-> parseInt(kept[i].count[2]),
          source |-> Str("calgary")]]

\* what the handler of an endpoint makes of the upstream's rows: the value
\* it caches and sends
resultOf(ep, data, rows, uuid) ==
  CASE ep = "bbox" -> ArrOf(toPublicRecords(fetchByBoundingBox(rows, uuid)))
    [] ep = "staff" -> ArrOf(toStaffRecords(fetchByBoundingBox(rows, uuid)))
    [] ep = "nearby" ->
         ArrOf(toPublicRecords(fetchByRadius(data[KLat], data[KLng],
                                             data[KRadius], data[KLimit], rows, uuid)))
    [] ep = "categories" -> ArrOf(fetchCategories(rows))

rowSetsOf(ep) == IF ep = "categories" THEN CategoryRowSets ELSE RowSets

\* every route storing with the service's TTL
ttlOfDefault(ep) == 3600

\* cacheService.set(cacheKey, result) uses the service's TTL
\* (CACHE_TTL_SECONDS), the staff route passes its own
ttlOf(ep) == IF ep = "staff" THEN 900 ELSE 3600

(***************************************************************************)
(* CacheService over its two backends                                      *)
(*                                                                         *)
(* An entry is [text, ttl, age, by]: the JSON text stored, the TTL it was  *)
(* stored with, the seconds since then and (history) the <<endpoint,       *)
(* parameters>> of the request that stored it.                             *)
(***************************************************************************)
EmptyStore == [k \in {} |-> Null]

\* the backend answers from its store
CacheWorking == ~usingRedis \/ (redisReady /\ redisUp)

ActiveStore == IF usingRedis THEN redisStore ELSE memStore

\* a RedisBackend.get without its ready guard
backendGetUnguarded(key) ==
  IF ~usingRedis
  THEN <<"ok", IF key \in DOMAIN memStore THEN memStore[key].text ELSE Null>>
  ELSE IF ~redisUp THEN <<"throw">>
  ELSE <<"ok", IF key \in DOMAIN redisStore THEN redisStore[key].text ELSE Null>>

\* this.backend.get(key): <<"throw">>, or <<"ok", text or null>>.
\* RedisBackend answers null while it is not ready; a command on a lost
\* connection is rejected (enableOfflineQueue: false).
backendGet(key) ==
  IF ~usingRedis
  THEN <<"ok", IF key \in DOMAIN memStore THEN memStore[key].text ELSE Null>>
  ELSE IF ~redisReady THEN <<"ok", Null>>
  ELSE IF ~redisUp THEN <<"throw">>
  ELSE <<"ok", IF key \in DOMAIN redisStore THEN redisStore[key].text ELSE Null>>

\* a text JSON.parse throws on (cut short, or written by something else)
CorruptText == <<"J_bad">>

WellFormed(text) == text # CorruptText

\* a CacheService.get that hands back what it cannot parse
cacheGetLenient(key) ==
  LET raw == backendGet(key)
  IN  IF raw[1] = "throw" THEN Null
      ELSE IF raw[2] = Null THEN Null
      ELSE IF ~WellFormed(raw[2]) THEN Str("corrupt")
      ELSE Parse(raw[2])

\* CacheService.get: null when the backend throws, has nothing, or holds a
\* text JSON.parse throws on (the catch covers both); else the parsed text
cacheGet(key) ==
  LET raw == backendGet(key)
  IN  IF raw[1] = "throw" THEN Null
      ELSE IF raw[2] = Null THEN Null
      ELSE IF ~WellFormed(raw[2]) THEN Null
      ELSE Parse(raw[2])

\* a CacheService.get without its try/catch
getRaises(raw) == raw[1] = "throw" \/ (raw[2] # Null /\ ~WellFormed(raw[2]))

\* CacheService.get catches whatever the backend or JSON.parse throws
getThrows(raw) == FALSE

\* if (cached): arrays and objects are truthy
Truthy(v) == v[1] \in {"arr", "obj"} \/ (v[1] = "num" /\ v[2] # 0) \/ (v[1] = "str" /\ v[2] # "")

\* a RedisBackend.set without its ready guard
backendSetUnguarded ==
  IF ~usingRedis THEN "stored"
  ELSE IF ~redisUp THEN "throw"
  ELSE "stored"

\* this.backend.set(...): "stored", "noop" (RedisBackend not ready) or
\* "throw"
backendSet ==
  IF ~usingRedis THEN "stored"
  ELSE IF ~redisReady THEN "noop"
  ELSE IF ~redisUp THEN "throw"
  ELSE "stored"

\* this.backend.del(key): "deleted", "noop" (RedisBackend not ready) or
\* "throw"
backendDel ==
  IF ~usingRedis THEN "deleted"
  ELSE IF ~redisReady THEN "noop"
  ELSE IF ~redisUp THEN "throw"
  ELSE "deleted"

\* a del that empties the store
afterDelFlush(store, key) == [k \in {} |-> Null]

\* store.del(key) / client.del(key)
afterDel(store, key) == Without(store, key)

\* a CacheService.invalidate without its try/catch
invalidateRaises(outcome) == outcome = "throw"

\* CacheService.invalidate catches what the backend throws
invalidateThrows(outcome) == FALSE

\* catch (err) { console.warn(...) }: set and invalidate warn exactly when
\* the backend threw
warns(outcome) == outcome = "throw"

\* a CacheService.set without its try/catch
setRaises(outcome) == outcome = "throw"

\* CacheService.set catches what the backend throws: nothing reaches the
\* caller
setThrows(outcome) == FALSE

(***************************************************************************)
(* Requests                                                                *)
(***************************************************************************)
MaxInFlight == 2

Slots == 1..MaxInFlight

Numeral(n) == <<"int", n>>
Absent == <<"absent">>

BboxQuery(north, south, east, west, limit) ==
  [north |-> north, south |-> south, east |-> east, west |-> west, limit |-> limit]

NearbyQuery(lat, lng, radius, limit) ==
  [lat |-> lat, lng |-> lng, radius |-> radius, limit |-> limit]

CategoriesQuery(area, limit) == [area |-> area, limit |-> limit]

\* two boxes whose parameter texts have the same djb2 hash
QA == BboxQuery(Numeral(1), Numeral(0), Numeral(9), Numeral(1), Numeral(85))
QB == BboxQuery(Numeral(5), Numeral(3), Numeral(2), Numeral(0), Numeral(22))
\* ?south=&...: the empty string
QEmptySouth == [QA EXCEPT !.south = <<"empty">>]
\* south above north
QInverted == BboxQuery(Numeral(0), Numeral(1), Numeral(9), Numeral(1), Numeral(85))
QMissingWest == [QA EXCEPT !.west = Absent]
QJunkEast == [QA EXCEPT !.east = <<"junk">>]
QNorth91 == [QA EXCEPT !.north = Numeral(91)]
QWest181 == [QA EXCEPT !.west = Numeral(-181)]
QLimit2001 == [QA EXCEPT !.limit = Numeral(2001)]
QLimit0 == [QA EXCEPT !.limit = Numeral(0)]

QNear == NearbyQuery(Numeral(51), Numeral(-114), Absent, Absent)
QNearNoLat == NearbyQuery(Absent, Numeral(-114), Absent, Absent)
QNearRadius50001 == NearbyQuery(Numeral(51), Numeral(-114), Numeral(50001), Absent)

QCat == CategoriesQuery(Absent, Absent)
QCatLimit501 == CategoriesQuery(Absent, Numeral(501))
QCatAreaTwice == CategoriesQuery(<<"array">>, Absent)

StaffToken == <<"bearer", <<"valid", "staff">>>>

Request(ep, query, auth) == [ep |-> ep, query |-> query, auth |-> auth]

\* requests that pass validation (and the middleware)
GoodRequests ==
  {Request("bbox", QA, <<"none">>), Request("bbox", QB, <<"none">>),
   Request("nearby", QNear, <<"none">>), Request("categories", QCat, <<"none">>),
   Request("staff", QA, StaffToken)}

\* the requests of the concurrent specification
ConcRequests ==
  (GoodRequests \ {Request("bbox", QB, <<"none">>)}) \cup {Request("staff", QA, <<"none">>)}

\* the requests of the sequential specification
SeqRequests == {r \in GoodRequests : r.ep \in PublicEndpoints}

\* the requests of the specification of the gates in front of the handlers
GateRequests ==
  {Request("bbox", q, <<"none">>) :
     q \in {QA, QEmptySouth, QInverted, QMissingWest, QJunkEast, QNorth91,
            QWest181, QLimit2001, QLimit0}}
  \cup {Request("nearby", q, <<"none">>) : q \in {QNear, QNearNoLat, QNearRadius50001}}
  \cup {Request("categories", q, <<"none">>) : q \in {QCat, QCatLimit501, QCatAreaTwice}}
  \cup {Request("staff", QA, auth) : auth \in AuthHeaders}
  \cup {Request("staff", q, auth) :
          q \in {QMissingWest},
          auth \in {StaffToken, <<"none">>, <<"bearer", <<"valid", "viewer">>>>}}

\* a slot no request has used; the fields after body are history
IdleReq ==
  [pc |-> "idle", ep |-> "", query |-> <<>>, auth |-> <<>>,
   data |-> <<>>, key |-> <<>>, result |-> Null,
   status |-> 0, body |-> Null, xcache |-> "",
   validated |-> FALSE, nGet |-> 0, nSet |-> 0, nUp |-> 0,
   upFailed |-> FALSE, stored |-> FALSE, servedBy |-> <<>>,
   first |-> FALSE, repeat |-> FALSE, repeatFail |-> FALSE,
   prevBody |-> Null, calmAtLookup |-> FALSE, corrupt |-> FALSE,
   left |-> -1, due |-> -1]

\* res.status(status).json(...): the handler is through
Sent(r, status, body) == [r EXCEPT !.pc = "done", !.status = status, !.body = body, !.result = Null]

SInit ==
  /\ phase = "boot"
  /\ usingRedis = FALSE
  /\ redisReady = FALSE
  /\ redisUp = FALSE
  /\ memStore = EmptyStore
  /\ redisStore = EmptyStore
  /\ req = [s \in Slots |-> IdleReq]
  /\ seen = {}
  /\ calm = TRUE
  /\ preflight = "none"

XIdle ==
  /\ tIn = <<>>
  /\ tRan = {}
  /\ tPub = <<>>
  /\ tInSwap = <<>>
  /\ tPubSwap = <<>>
  /\ tStaff = <<>>
  /\ tJson = Null

Init == SInit /\ XIdle /\ HIdle /\ CIdle

\* a connect() that takes the RedisBackend whenever it tried to connect
selectsRedisUnchecked(outcome) == outcome # "test"

\* if (redisBackend.isReady) { this.backend = redisBackend; this.usingRedis = true; }
selectsRedis(outcome) == outcome = "ready"

\* start(): await cacheService.connect() before app.listen().  Under
\* NODE_ENV=test connect returns at once, without a client.  Otherwise the
\* pre-flight client.connect() ends ready, or is refused, or is not ready
\* within connectTimeout (both reject: ready stays false); the backend
\* becomes the RedisBackend if it is ready and stays the fallback if not.
Connect ==
  /\ phase = "boot"
  /\ phase' = "serving"
  /\ \E outcome \in {"test", "ready", "refused", "timeout"} :
       /\ preflight' = outcome
       /\ usingRedis' = selectsRedis(outcome)
       /\ redisReady' = (outcome = "ready")
       /\ redisUp' = (outcome = "ready")
  /\ UNCHANGED <<memStore, redisStore, req, seen, calm>>
  /\ UNCHANGED <<xvars, hvars, cvars>>

\* The synchronous head of a handler, for every request of the three
\* specifications: the middleware, safeParse and, once both let the
\* request through, buildKey.
Arrival ==
  [r \in ConcRequests \cup SeqRequests \cup GateRequests |->
     LET mw == middleware(r.ep, r.auth)
         parsed == safeParse(r.ep, r.query)
     IN  IF mw.status # 0
         THEN [status |-> mw.status, error |-> mw.error, validated |-> FALSE,
               data |-> <<>>, key |-> <<>>]
         ELSE IF rejects(parsed)
         THEN [status |-> 400, error |-> "Invalid query parameters", validated |-> TRUE,
               data |-> <<>>, key |-> <<>>]
         ELSE [status |-> 0, error |-> "", validated |-> TRUE,
               data |-> parsed.data, key |-> cacheKeyOf(r.ep, parsed.data)]]

\* A request arrives in slot s and runs up to its first await.  history
\* says whether the request is compared with the ones before it.
Receive(s, r, history) ==
  /\ phase = "serving"
  /\ req[s].pc \in {"idle", "done"}
  /\ LET head == Arrival[r]
         old == req[s]
         new == [IdleReq EXCEPT !.ep = r.ep, !.query = r.query, !.auth = r.auth,
                                !.validated = head.validated]
         same == history /\ old.pc = "done" /\ old.ep = r.ep /\ old.data = head.data
     IN  IF head.status # 0
         THEN /\ req' = [req EXCEPT ![s] = Sent(new, head.status, errorBody(head.error))]
              /\ UNCHANGED seen
         ELSE /\ req' = [req EXCEPT ![s] =
                           [new EXCEPT !.pc = "lookup",
                                       !.data = head.data,
                                       !.key = head.key,
                                       !.first = history /\ <<r.ep, head.data>> \notin seen,
                                       !.repeat = same /\ old.status = 200,
                                       !.repeatFail = same /\ old.upFailed,
                                       !.prevBody = IF same THEN old.body ELSE Null,
                                       !.left = IF same /\ old.status = 200
                                                THEN old.left ELSE -1]]
              /\ seen' = IF history THEN seen \cup {<<r.ep, head.data>>} ELSE seen
  /\ UNCHANGED <<phase, usingRedis, redisReady, redisUp, memStore, redisStore, calm>>
  /\ UNCHANGED <<xvars, hvars, cvars, preflight>>

\* const cached = await cacheService.get(cacheKey); if (cached) { HIT }
\* a handler that, on a miss, waits for a request in flight for the same
\* key instead of fetching
afterMissJoins(sameKeyInFlight) == IF sameKeyInFlight THEN "respond" ELSE "fetch"

\* after a miss the handler goes on to its try { await adapter.fetch... },
\* whatever other requests are doing
afterMiss(sameKeyInFlight) == "fetch"

Lookup(s) ==
  /\ req[s].pc = "lookup"
  /\ LET r == [req[s] EXCEPT !.nGet = 1, !.calmAtLookup = calm, !.due = req[s].left,
                             !.corrupt = /\ CacheWorking
                                         /\ req[s].key \in DOMAIN ActiveStore
                                         /\ ~WellFormed(ActiveStore[req[s].key].text)]
         cached == cacheGet(r.key)
     IN  req' = [req EXCEPT ![s] =
                   IF Truthy(cached)
                   THEN Sent([r EXCEPT !.xcache = "HIT", !.servedBy = ActiveStore[r.key].by,
                                       !.left = ActiveStore[r.key].ttl - ActiveStore[r.key].age],
                             200, Stringify(cached))
                   ELSE [r EXCEPT !.pc =
                           afterMiss(\E t \in Slots \ {s} :
                                       /\ req[t].key = r.key
                                       /\ req[t].pc \in {"fetch", "fetching", "store"})]]
  /\ calm' = CacheWorking
  /\ UNCHANGED <<phase, usingRedis, redisReady, redisUp, memStore, redisStore, seen>>
  /\ UNCHANGED <<xvars, hvars, cvars, preflight>>

\* a handler that answers an upstream failure with an empty list
onUpstreamErrorEmpty(r) == Sent([r EXCEPT !.xcache = "MISS"], 200, Stringify(Arr(<<>>)))

\* catch (err) { res.status(502).json({ error: ... }) }
onUpstreamError(r) == Sent(r, 502, errorBody("Upstream data source unavailable"))

\* await adapter.fetch...(...): the call throws, or the handler goes on
\* with the transformed rows
Fetch(s) ==
  /\ req[s].pc = "fetch"
  /\ LET r == [req[s] EXCEPT !.nUp = 1]
     IN  \/ req' = [req EXCEPT ![s] = onUpstreamError([r EXCEPT !.upFailed = TRUE])]
         \/ \E rows \in rowSetsOf(r.ep), uuid \in UUIDs :
              req' = [req EXCEPT ![s] =
                        [r EXCEPT !.pc = "store",
                                  !.result = resultOf(r.ep, r.data, rows, uuid)]]
  /\ UNCHANGED <<phase, usingRedis, redisReady, redisUp, memStore, redisStore, seen, calm>>
  /\ UNCHANGED <<xvars, hvars, cvars, preflight>>

\* await cacheService.set(cacheKey, result[, 900])
Store(s) ==
  /\ req[s].pc = "store"
  /\ LET r == req[s]
         outcome == backendSet
         entry == [text |-> Stringify(r.result), ttl |-> ttlOf(r.ep), age |-> 0,
                   by |-> <<r.ep, r.data>>]
     IN  /\ memStore' = IF outcome = "stored" /\ ~usingRedis
                        THEN With(memStore, r.key, entry) ELSE memStore
         /\ redisStore' = IF outcome = "stored" /\ usingRedis
                          THEN With(redisStore, r.key, entry) ELSE redisStore
         /\ calm' = (outcome = "stored")
         /\ req' = [req EXCEPT ![s] =
                      IF setThrows(outcome)
                      THEN onUpstreamError(r)
                      ELSE [r EXCEPT !.pc = "respond", !.nSet = 1,
                                     !.stored = (outcome = "stored"),
                                     !.left = IF outcome = "stored" THEN entry.ttl ELSE -1]]
  /\ UNCHANGED <<phase, usingRedis, redisReady, redisUp, seen>>
  /\ UNCHANGED <<xvars, hvars, cvars, preflight>>

\* res.setHeader('X-Cache', 'MISS'); res.json(result)
Respond(s) ==
  /\ req[s].pc = "respond"
  /\ req' = [req EXCEPT ![s] =
               Sent([req[s] EXCEPT !.xcache = "MISS"], 200, Stringify(req[s].result))]
  /\ UNCHANGED <<phase, usingRedis, redisReady, redisUp, memStore, redisStore, seen, calm>>
  /\ UNCHANGED <<xvars, hvars, cvars, preflight>>

\* the TTL of an entry runs out (node-cache drops it, Redis expires it)
Expire ==
  /\ \E k \in DOMAIN ActiveStore :
       /\ memStore' = IF usingRedis THEN memStore ELSE Without(memStore, k)
       /\ redisStore' = IF usingRedis THEN Without(redisStore, k) ELSE redisStore
       /\ shadow' = Without(shadow, k)
  /\ calm' = FALSE
  /\ UNCHANGED <<phase, usingRedis, redisReady, redisUp, req, seen, preflight>>
  /\ UNCHANGED <<op, keyIn, cvars, keyOut, call>>
  /\ UNCHANGED xvars

\* something else writes a key of the Redis server, or an entry is cut
\* short: the text under the key is no JSON any more
Corrupt ==
  /\ usingRedis
  /\ \E k \in DOMAIN redisStore :
       /\ redisStore[k].text # CorruptText
       /\ redisStore' = [redisStore EXCEPT ![k] =
                           [text |-> CorruptText, ttl |-> redisStore[k].ttl,
                            age |-> redisStore[k].age, by |-> <<"foreign">>]]
  /\ calm' = FALSE
  /\ UNCHANGED <<phase, usingRedis, redisReady, redisUp, memStore, req, seen>>
  /\ UNCHANGED <<xvars, hvars, cvars, preflight>>

\* connect() made a RedisBackend with a client (it does so outside test
\* mode, whether or not the backend was then selected)
HasClient == preflight \in {"ready", "refused", "timeout"}

\* a CacheService that goes over to the RedisBackend when it reports ready
promotedOnReady(selected) == TRUE

\* the 'ready' and 'error' handlers touch RedisBackend.ready only: the
\* selection made by connect() stays
afterClientEvent(selected) == selected

\* the client's connection is lost; the client has not said so yet
ClientDown ==
  /\ HasClient /\ redisUp
  /\ redisUp' = FALSE
  /\ calm' = (calm /\ ~usingRedis)
  /\ UNCHANGED <<phase, usingRedis, redisReady, memStore, redisStore, req, seen>>
  /\ UNCHANGED <<xvars, hvars, cvars, preflight>>

\* this.client.on('error', () => { this.ready = false; })
ClientError ==
  /\ HasClient /\ ~redisUp
  /\ redisReady' = FALSE
  /\ usingRedis' = afterClientEvent(usingRedis)
  /\ calm' = (calm /\ ~usingRedis)
  /\ UNCHANGED <<phase, redisUp, memStore, redisStore, req, seen>>
  /\ UNCHANGED <<xvars, hvars, cvars, preflight>>

\* the client reconnects
ClientUp ==
  /\ HasClient /\ ~redisUp
  /\ redisUp' = TRUE
  /\ calm' = (calm /\ ~usingRedis)
  /\ UNCHANGED <<phase, usingRedis, redisReady, memStore, redisStore, req, seen>>
  /\ UNCHANGED <<xvars, hvars, cvars, preflight>>

\* this.client.on('ready', () => { this.ready = true; })
ClientReady ==
  /\ HasClient /\ redisUp /\ ~redisReady
  /\ redisReady' = TRUE
  /\ usingRedis' = afterClientEvent(usingRedis)
  /\ calm' = (calm /\ ~usingRedis)
  /\ UNCHANGED <<phase, redisUp, memStore, redisStore, req, seen>>
  /\ UNCHANGED <<xvars, hvars, cvars, preflight>>

\* the same events while the RedisBackend is the selected backend
RedisDown == usingRedis /\ ClientDown
RedisErrorEvent == usingRedis /\ redisReady /\ ClientError
RedisUpAgain == usingRedis /\ ClientUp
RedisReadyEvent == usingRedis /\ ClientReady

(***************************************************************************)
(* CacheService called directly, as CacheService.test.ts does              *)
(***************************************************************************)
CacheKeys == {<<"k", "e", "y", "1">>, <<"a", "r", "r">>}

\* an object and an array (with an object and an array in it)
CacheValues ==
  {Obj([name |-> Str("bar"), count |-> Num(42)]),
   Arr(<<Num(1), Obj([category |-> Str("RETAIL DEALER")]), Arr(<<>>)>>)}

\* the state of the backend a call meets
Called(name, key) ==
  [NoOp EXCEPT !.name = name, !.key = key,
               !.viaRedis = usingRedis, !.ready = redisReady, !.up = redisUp,
               !.expected = IF key \in DOMAIN shadow THEN shadow[key] ELSE Null]

\* await cache.get(key)
CallGet ==
  /\ phase = "serving"
  /\ \E key \in CacheKeys :
       op' = [Called("get", key) EXCEPT
                !.result = cacheGet(key),
                !.raised = getThrows(backendGet(key)),
                !.corrupt = /\ key \in DOMAIN ActiveStore
                            /\ ~WellFormed(ActiveStore[key].text)]
  /\ UNCHANGED <<shadow, keyIn, cvars, keyOut, call>>
  /\ UNCHANGED <<xvars, svars>>

\* await cache.set(key, value)
CallSet ==
  /\ phase = "serving"
  /\ \E key \in CacheKeys, value \in CacheValues :
       LET outcome == backendSet
           entry == [text |-> Stringify(value), ttl |-> 3600, age |-> 0,
                     by |-> <<"caller", key>>]
           stored == outcome = "stored"
       IN  /\ memStore' = IF stored /\ ~usingRedis
                          THEN With(memStore, key, entry) ELSE memStore
           /\ redisStore' = IF stored /\ usingRedis
                            THEN With(redisStore, key, entry) ELSE redisStore
           /\ shadow' = IF stored THEN With(shadow, key, value) ELSE shadow
           /\ op' = [Called("set", key) EXCEPT
                      !.value = value,
                      !.raised = setThrows(outcome),
                      !.warned = warns(outcome),
                      !.wrote = IF ~stored THEN "none"
                                ELSE IF usingRedis THEN "redis" ELSE "mem"]
  /\ calm' = FALSE
  /\ UNCHANGED <<phase, usingRedis, redisReady, redisUp, req, seen, preflight>>
  /\ UNCHANGED <<keyIn, cvars, keyOut, call>>
  /\ UNCHANGED xvars

\* await cache.invalidate(key)
CallInvalidate ==
  /\ phase = "serving"
  /\ \E key \in CacheKeys :
       LET outcome == backendDel
           deleted == outcome = "deleted"
       IN  /\ memStore' = IF deleted /\ ~usingRedis
                          THEN afterDel(memStore, key) ELSE memStore
           /\ redisStore' = IF deleted /\ usingRedis
                            THEN afterDel(redisStore, key) ELSE redisStore
           /\ shadow' = IF deleted THEN Without(shadow, key) ELSE shadow
           /\ op' = [Called("invalidate", key) EXCEPT
                      !.raised = invalidateThrows(outcome),
                      !.warned = warns(outcome),
                      !.wrote = IF ~deleted THEN "none"
                                ELSE IF usingRedis THEN "redis" ELSE "mem"]
  /\ calm' = FALSE
  /\ UNCHANGED <<phase, usingRedis, redisReady, redisUp, req, seen, preflight>>
  /\ UNCHANGED <<keyIn, cvars, keyOut, call>>
  /\ UNCHANGED xvars

\* requests handled concurrently: every await is a point where another
\* handler may run
ReceiveAny == \E s \in Slots, r \in ConcRequests : Receive(s, r, FALSE)
LookupAny == \E s \in Slots : Lookup(s)
FetchAny == \E s \in Slots : Fetch(s)
StoreAny == \E s \in Slots : Store(s)
RespondAny == \E s \in Slots : Respond(s)

Next == Connect \/ ReceiveAny \/ LookupAny \/ FetchAny \/ StoreAny \/ RespondAny

Spec == Init /\ [][Next]_vars

\* one request at a time, the cache living its life in between
ReceiveSeq == \E r \in SeqRequests : Receive(1, r, TRUE)
HandleSeq == Lookup(1) \/ Fetch(1) \/ Store(1) \/ Respond(1)
CacheEvent == Expire \/ RedisDown \/ RedisErrorEvent \/ RedisUpAgain \/ RedisReadyEvent

NextSeq == Connect \/ ReceiveSeq \/ HandleSeq \/ CacheEvent

SpecSeq == Init /\ [][NextSeq]_vars

\* the step of the clock, in seconds
TickSeconds == 900

\* the entries of a store a step of the clock later: an entry whose TTL has
\* run out is gone (node-cache drops it, Redis expires it), the others
\* are older
aged(store) ==
  LET kept == {k \in DOMAIN store : store[k].age + TickSeconds < store[k].ttl}
  IN  [k \in kept |-> [store[k] EXCEPT !.age = @ + TickSeconds]]

\* what is left of a lifetime a step of the clock later (history; -1: not
\* known)
lessLeft(left) ==
  IF left < 0 THEN left ELSE IF left > TickSeconds THEN left - TickSeconds ELSE 0

\* time passes; nobody calls the cache
Tick ==
  /\ phase = "serving"
  /\ memStore' = aged(memStore)
  /\ redisStore' = aged(redisStore)
  /\ req' = [s \in DOMAIN req |-> [req[s] EXCEPT !.left = lessLeft(@)]]
  /\ UNCHANGED <<phase, usingRedis, redisReady, redisUp, seen, calm>>
  /\ UNCHANGED <<xvars, hvars, cvars, preflight>>

\* one request at a time, public or staff, while time passes
TtlRequests == {Request("bbox", QA, <<"none">>), Request("staff", QA, StaffToken)}

ReceiveTtl == \E r \in TtlRequests : Receive(1, r, TRUE)

NextTtl == Connect \/ ReceiveTtl \/ HandleSeq \/ Tick

SpecTtl == Init /\ [][NextTtl]_vars

\* one request at a time, of every shape
ReceiveGate == \E r \in GateRequests : Receive(1, r, FALSE)

NextGate == Connect \/ ReceiveGate \/ HandleSeq

SpecGate == Init /\ [][NextGate]_vars

\* the cache service under direct calls, with the client's events whether
\* or not its backend was selected
ClientEvent == ClientDown \/ ClientError \/ ClientUp \/ ClientReady

NextCache ==
  \/ Connect
  \/ CallGet \/ CallSet \/ CallInvalidate
  \/ ClientEvent \/ Expire \/ Corrupt

SpecCache == Init /\ [][NextCache]_vars

\* requests of one kind, one at a time, over a backend whose client comes
\* and goes and whose entries may be overwritten
ReceiveBackend == Receive(1, Request("categories", QCat, <<"none">>), FALSE)

NextBackend == Connect \/ ReceiveBackend \/ HandleSeq \/ ClientEvent \/ Expire \/ Corrupt

SpecBackend == Init /\ [][NextBackend]_vars

(***************************************************************************)
(* Claims about the transformers (checked under SpecXform)                 *)
(***************************************************************************)

\* C3: for every BusinessRecord r, toPublicRecord(r) has exactly the ten
\* whitelisted keys, each holding the value of the same-named field of r,
\* and no _raw key or other key, whatever r contains.
C3_PublicExactlyWhitelist ==
  "public" \in tRan =>
    /\ Len(tPub) = Len(tIn)
    /\ Cardinality(PublicKeys) = 10
    /\ \A i \in DOMAIN tIn :
         /\ DOMAIN tPub[i] = PublicKeys
         /\ "_raw" \notin DOMAIN tPub[i]
         /\ \A k \in PublicKeys : tPub[i][k] = Field(tIn[i], k)

\* a record with a raw payload and a property outside the interface went
\* through toPublicRecord
C3_Witness ==
  /\ "public" \in tRan
  /\ \E i \in DOMAIN tIn :
       /\ "owner_email" \in DOMAIN tIn[i]
       /\ Field(tIn[i], "_raw") = RawPii

\* C4: the public projection does not depend on the raw payload: records
\* that agree on the ten whitelisted fields and differ only in _raw give
\* equal toPublicRecord / toPublicRecords results, and no string that lives
\* only in a payload (the sentinel included) occurs in the serialized output.
C4_PublicIgnoresRaw ==
  /\ "public" \in tRan =>
       /\ tPubSwap = tPub
       /\ \A i \in DOMAIN tIn : toPublicRecord(tInSwap[i]) = tPub[i]
  /\ "json" \in tRan => Atoms(tJson) \cap RawOnlyAtoms = {}

\* records carrying PII were projected, then projected again with the
\* sentinel payload in place of it, and the projection was serialized
C4_Witness ==
  /\ "json" \in tRan
  /\ Len(tIn) = MaxRecs
  /\ tInSwap # tIn
  /\ \A i \in DOMAIN tIn :
       /\ Field(tIn[i], "_raw") = RawPii
       /\ Field(tInSwap[i], "_raw") = RawSentinel

\* C5: for every BusinessRecord r, toStaffRecord(r) holds every field of
\* toPublicRecord(r) with the same value, plus 'raw' equal to r._raw
\* unchanged (an empty map when r has no _raw), and has no '_raw' key.
C5_StaffIsPublicPlusRaw ==
  "staff" \in tRan =>
    /\ Len(tStaff) = Len(tIn)
    /\ \A i \in DOMAIN tIn :
         /\ \A k \in PublicKeys :
              k \in DOMAIN tStaff[i] /\ tStaff[i][k] = toPublicRecord(tIn[i])[k]
         /\ "raw" \in DOMAIN tStaff[i]
         /\ tStaff[i]["raw"] =
              IF Field(tIn[i], "_raw") = Undefined THEN EmptyObj ELSE tIn[i]["_raw"]
         /\ "_raw" \notin DOMAIN tStaff[i]

\* toStaffRecord ran on a record with a payload and on one without
C5_Witness ==
  /\ "staff" \in tRan
  /\ \E i, j \in DOMAIN tIn :
       /\ Field(tIn[i], "_raw") = RawPii
       /\ tStaff[i]["raw"] = RawPii
       /\ "_raw" \notin DOMAIN tIn[j]
       /\ tStaff[j]["raw"] = EmptyObj

(***************************************************************************)
(* Claims about the request handlers                                       *)
(***************************************************************************)
CategoryKeys == {"category", "count", "source"}

\* strings the upstream rows hold that no public field is made of
PayloadOnlyAtoms ==
  {"_raw", "raw", "getbusid", "tradename", "licencetypes", "jobstatusdesc",
   "first_iss_dt", "point", "type", "Point", "coordinates",
   "owner_name", "business_phone", "owner_email",
   "Jane Doe", "403-555-0100", "far@example.com", Sentinel}

\* the keys of element i of a JSON array of objects
ElementKeys(text, i) == {text[2][i][2][j][1] : j \in DOMAIN text[2][i][2]}

IsArrayOfObjects(text) ==
  /\ text[1] = "J_arr"
  /\ \A i \in DOMAIN text[2] : text[2][i][1] = "J_obj"

\* a body made of public projections, or of category summaries, only
PublicBody(text) ==
  /\ IsArrayOfObjects(text)
  /\ \/ \A i \in DOMAIN text[2] : ElementKeys(text, i) = PublicKeys
     \/ \A i \in DOMAIN text[2] : ElementKeys(text, i) = CategoryKeys
  /\ Atoms(text) \cap PayloadOnlyAtoms = {}

\* a body made of staff projections only
StaffBody(text) ==
  /\ IsArrayOfObjects(text)
  /\ \A i \in DOMAIN text[2] : ElementKeys(text, i) = PublicKeys \cup {"raw"}

Answered(r) == r.pc = "done"

NoCacheNoUpstream(r) == r.nGet = 0 /\ r.nSet = 0 /\ r.nUp = 0

\* C1: whatever the interleaving of public bounding-box, nearby and
\* categories requests with staff requests on the one cache, each 200 sent
\* for a public request is made of public projections or category
\* summaries only, holds no string of a raw payload, and, when it came out
\* of the cache, came out of an entry a public request of that endpoint
\* had stored.
C1_PublicNeverSeesPayload ==
  \A s \in Slots :
    LET r == req[s]
    IN  (Answered(r) /\ r.ep \in PublicEndpoints /\ r.status = 200) =>
          /\ PublicBody(r.body)
          /\ r.xcache = "HIT" => r.servedBy[1] = r.ep

\* C1 witness: a public bounding-box request answered from the cache while
\* a staff request for the same box has been answered with its payloads
\* and both entries sit in the store.
C1_Witness ==
  \E s, t \in Slots :
    /\ Answered(req[s]) /\ req[s].ep = "bbox" /\ req[s].status = 200
    /\ req[s].xcache = "HIT" /\ req[s].body[2] # <<>>
    /\ Answered(req[t]) /\ req[t].ep = "staff" /\ req[t].status = 200
    /\ req[t].data = req[s].data
    /\ "Jane Doe" \in Atoms(req[t].body)
    /\ {req[s].key, req[t].key} \subseteq DOMAIN ActiveStore

Authorized(auth) ==
  auth[1] = "bearer" /\ auth[2][1] = "valid" /\ auth[2][2] \in {"staff", "admin"}

\* C2: a request to GET /staff/businesses gets past the middleware only
\* with a verified Bearer token of role staff or admin, and only then is
\* it answered 200, with staff projections; without a verified token
\* (none, malformed, invalid, expired) it is answered 401, with a verified
\* token of another role 403, and in both cases nothing was validated,
\* looked up, stored or fetched.
C2_StaffGate ==
  LET r == req[1]
      verified == r.auth[1] = "bearer" /\ r.auth[2][1] = "valid"
  IN  r.ep = "staff" =>
        /\ r.pc \in {"lookup", "fetch", "store", "respond"} => Authorized(r.auth)
        /\ Answered(r) =>
             /\ ~verified => r.status = 401
             /\ (verified /\ ~Authorized(r.auth)) => r.status = 403
             /\ r.status \in {401, 403} => ~r.validated /\ NoCacheNoUpstream(r)
             /\ r.status = 200 => Authorized(r.auth) /\ StaffBody(r.body)
             /\ Authorized(r.auth) => r.status \in {200, 400, 502}

\* C2 witness: a staff request with a verified token of role viewer has
\* been answered 403.
C2_Witness ==
  /\ Answered(req[1]) /\ req[1].ep = "staff"
  /\ req[1].auth = <<"bearer", <<"valid", "viewer">>>>
  /\ req[1].status = 403

ReachedValidation(r) == r.pc # "idle" /\ middleware(r.ep, r.auth).status = 0

\* C7: on each of the four endpoints, a request whose query the schema
\* does not accept is answered 400 at once, by the step that received it,
\* with no cache get, no cache set and no upstream call.
C7_InvalidRejectedUntouched ==
  LET r == req[1]
  IN  (ReachedValidation(r) /\ ~safeParse(r.ep, r.query).success) =>
        /\ Answered(r)
        /\ r.status = 400
        /\ r.body = errorBody("Invalid query parameters")
        /\ NoCacheNoUpstream(r)

\* C7 witness: a categories request with limit=501 has been answered 400
\* while the cache holds entries of earlier requests.
C7_Witness ==
  /\ Answered(req[1]) /\ req[1].ep = "categories"
  /\ req[1].query = QCatLimit501
  /\ req[1].status = 400
  /\ DOMAIN ActiveStore # {}

\* a bounding box as the specification calls malformed: an edge missing or
\* not a number, out of range, or south above north
MalformedBox(q) ==
  LET numeric == \A e \in {q.north, q.south, q.east, q.west} : e[1] = "int"
  IN  \/ ~numeric
      \/ q.north[2] < -90 \/ q.north[2] > 90
      \/ q.south[2] < -90 \/ q.south[2] > 90
      \/ q.east[2] < -180 \/ q.east[2] > 180
      \/ q.west[2] < -180 \/ q.west[2] > 180
      \/ q.south[2] > q.north[2]

\* C8 as the specification states it: every malformed bounding box is
\* answered 400 before any cache lookup or upstream call.
C8_AsSpecified ==
  LET r == req[1]
  IN  (r.ep \in {"bbox", "staff"} /\ ReachedValidation(r) /\ MalformedBox(r.query)) =>
        Answered(r) /\ r.status = 400 /\ NoCacheNoUpstream(r)

C10_SetBeforeResponse ==
  LET r == req[1]
  IN  /\ r.pc = "store" => r.status = 0 /\ r.nSet = 0
      /\ r.pc = "respond" => r.status = 0 /\ r.nSet = 1
      /\ (Answered(r) /\ r.nUp = 1 /\ ~r.upFailed) =>
           /\ r.status = 200 /\ r.xcache = "MISS" /\ r.nSet = 1
           /\ IsArrayOfObjects(r.body)

\* C10 witness: a 200 sent after a miss whose cache write stored nothing
\* (the Redis connection was gone).
C10_Witness ==
  /\ Answered(req[1]) /\ req[1].status = 200 /\ req[1].xcache = "MISS"
  /\ req[1].nSet = 1 /\ ~req[1].stored

\* C6 as the specification states it: the first request with an operation
\* and parameter set calls the upstream exactly once, and an immediate
\* repeat (working backend, entry not expired) calls it zero times and
\* gets the identical body.
C6_AsSpecified ==
  LET r == req[1]
  IN  /\ (Answered(r) /\ r.first) => r.nUp = 1
      /\ (Answered(r) /\ r.repeat /\ r.calmAtLookup) =>
           r.nUp = 0 /\ r.body = r.prevBody

(***************************************************************************)
(* CacheService.buildKey on object literals                                *)
(*                                                                         *)
(* A params object is the sequence of its <<key, value>> properties in     *)
(* insertion order, which is the order Object.keys lists string keys in.   *)
(* keyIn is a pair of argument lists and keyOut the keys built from them.  *)
(***************************************************************************)
\* Object.keys(params)
ObjectKeys(entries) == [i \in DOMAIN entries |-> entries[i][1]]

\* params[k] for the keys it has
ParamsOf(entries) ==
  [k \in Range(ObjectKeys(entries)) |->
     entries[CHOOSE i \in DOMAIN entries : entries[i][1] = k][2]]

\* the key list left as Object.keys gave it
unsortedKeys(keys) == keys

\* Object.keys(params).sort()
sortedKeys(keys) == SortKeys(Range(keys))

\* JSON.stringify(params, Object.keys(params).sort())
stableOf(entries) ==
  <<"{">> \o StableMembers(ParamsOf(entries), sortedKeys(ObjectKeys(entries))) \o <<"}">>

\* CacheService.buildKey(source, endpoint, params) on an object literal
buildKeyFrom(args) ==
  args[1] \o <<":">> \o args[2] \o <<":">> \o HashHex(Djb2(stableOf(args[3])))

\* the other insertion orders of the same properties
Perms(entries) ==
  {[i \in DOMAIN entries |-> entries[p[i]]] :
     p \in {q \in [DOMAIN entries -> DOMAIN entries] : Range(q) = DOMAIN entries}}

Reverse(entries) == [i \in DOMAIN entries |-> entries[Len(entries) + 1 - i]]

SourceEdmonton == <<"e", "d", "m", "o", "n", "t", "o", "n">>

BoxA ==
  <<<<KNorth, Num(1)>>, <<KSouth, Num(0)>>, <<KEast, Num(9)>>, <<KWest, Num(1)>>,
    <<KLimit, Num(85)>>>>

BoxB ==
  <<<<KNorth, Num(5)>>, <<KSouth, Num(3)>>, <<KEast, Num(2)>>, <<KWest, Num(0)>>,
    <<KLimit, Num(22)>>>>

ParamObjects ==
  Perms(<<<<KLat, Num(51)>>, <<KLng, Num(-114)>>>>)
  \cup Perms(<<<<KNorth, Num(51)>>, <<KSouth, Num(50)>>, <<KLimit, Num(500)>>>>)
  \cup {<<>>, <<<<KLat, Num(51)>>, <<KLng, Num(-113)>>>>,
        BoxA, Reverse(BoxA), BoxB, Reverse(BoxB)}

KeyInputs ==
  {<<source, endpoint, params>> :
     source \in {SourceCalgary, SourceEdmonton},
     endpoint \in {endpointName("bbox"), endpointName("nearby")},
     params \in ParamObjects}

NoKey == <<>>

KeyInit ==
  /\ SInit /\ XIdle
  /\ op = NoOp /\ shadow = [k \in {} |-> Null] /\ call = IdleCall
  /\ CIdle
  /\ keyIn \in KeyInputs \X KeyInputs
  /\ keyOut = <<NoKey, NoKey>>

\* one call of CacheService.buildKey
BuildKey(i) ==
  /\ keyOut[i] = NoKey
  /\ keyOut' = [keyOut EXCEPT ![i] = buildKeyFrom(keyIn[i])]
  /\ UNCHANGED <<xvars, svars, op, shadow, keyIn, cvars, call>>

NextKey == \E i \in {1, 2} : BuildKey(i)

SpecKey == KeyInit /\ [][NextKey]_vars

KeysBuilt == keyOut[1] # NoKey /\ keyOut[2] # NoKey

SameArguments ==
  /\ keyIn[1][1] = keyIn[2][1]
  /\ keyIn[1][2] = keyIn[2][2]
  /\ ParamsOf(keyIn[1][3]) = ParamsOf(keyIn[2][3])

\* C18: two calls of buildKey with the same source, endpoint and
\* parameters give the same key, in whatever order the parameters were
\* put into the object (and so also when the order is the same).
C18_KeyIgnoresInsertionOrder ==
  (KeysBuilt /\ SameArguments) => keyOut[1] = keyOut[2]

\* C18 witness: the two calls got the same three properties in different
\* insertion orders and built the same key.
C18_Witness ==
  /\ KeysBuilt /\ SameArguments
  /\ Len(keyIn[1][3]) = 3
  /\ keyIn[1][3] # keyIn[2][3]
  /\ keyOut[1] = keyOut[2]

\* C19 as the specification states it: calls that differ in the source,
\* the endpoint or a parameter value give different keys.
C19_AsSpecified ==
  (KeysBuilt /\ ~SameArguments) => keyOut[1] # keyOut[2]

(***************************************************************************)
(* The adapter's HTTP client: axios with axios-retry (part_005, 98..114)   *)
(*                                                                         *)
(* call is one this.client.get(...): pc is idle, attempting (a request is  *)
(* on the wire), backoff (axios-retry waits out exponentialDelay), ok or   *)
(* failed; attempts counts the requests sent, retryCount is axios-retry's  *)
(* counter, seen lists what each attempt met.                              *)
(***************************************************************************)
\* what an attempt can meet: a response, no connection (ECONNREFUSED,
\* ECONNRESET, ...) or the 10 s timeout of the client (ECONNABORTED)
AttemptOutcomes ==
  {"s200", "network", "timeout", "s429", "s500", "s503", "s400", "s404"}

statusOf(outcome) ==
  CASE outcome = "s200" -> 200
    [] outcome = "s429" -> 429
    [] outcome = "s500" -> 500
    [] outcome = "s503" -> 503
    [] outcome = "s400" -> 400
    [] outcome = "s404" -> 404
    [] OTHER -> 0

\* err.response is set
hasResponse(outcome) == statusOf(outcome) # 0

\* axiosRetry.isNetworkError(err): no response, and an error code other
\* than ECONNABORTED
isNetworkError(outcome) == outcome = "network"

\* a condition that retries whatever the error
retryConditionAnyError(outcome) == outcome # "s200"

\* retryCondition: (err) => isNetworkError(err) || status === 429 ||
\* (status !== undefined && status >= 500)
retryCondition(outcome) ==
  \/ isNetworkError(outcome)
  \/ statusOf(outcome) = 429
  \/ (hasResponse(outcome) /\ statusOf(outcome) >= 500)

\* retries: 3
Retries == 3

\* a policy that gives up after the first retry
shouldRetryOnce(retryCount, outcome) == retryCount < 1 /\ retryCondition(outcome)

\* axios-retry: retry while retryCount < retries and retryCondition(err)
shouldRetry(retryCount, outcome) == retryCount < Retries /\ retryCondition(outcome)

\* --- the rows the upstream can answer with ---
\* a licence a degree east of the query point (70 km)
SocEast ==
  [getbusid |-> Str("BL-004"), tradename |-> Str("East Side Books"),
   point |-> Obj([type |-> Str("Point"), coordinates |-> Arr(<<Num(-113), Num(51)>>)])]

\* a licence a degree north of the query point (111 km)
SocNorth ==
  [getbusid |-> Str("BL-005"),
   point |-> Obj([type |-> Str("Point"), coordinates |-> Arr(<<Num(-114), Num(52)>>)]),
   owner_name |-> Str("John Roe")]

\* a point without its pair of numbers
SocEmptyPoint ==
  [getbusid |-> Str("BL-006"), tradename |-> Str("Nowhere Inc"),
   point |-> Obj([type |-> Str("Point"), coordinates |-> Arr(<<>>)])]

\* a row with neither id nor point
SocBare == [tradename |-> Str("Bare Ltd")]

UpstreamRows == {Soc1, Soc2, Soc3, SocEast, SocNorth, SocEmptyPoint, SocBare}

\* a group without a label
CatUnlabelled == [count |-> Str(<<"9">>)]

UpstreamCategoryRows == {Cat1, Cat2, Cat3, CatUnlabelled}

\* the longest upstream response
MaxRows == 2

\* --- the calls made on the adapter ---
RadiusArgs ==
  {[lat |-> Num(51), lng |-> Num(-114), radiusMetres |-> Num(radius), limit |-> limit] :
     radius \in {1000, 100000, 120000}, limit \in {Undefined, Num(1), Num(2)}}

LimitArgs == {[NoArgs EXCEPT !.limit = limit] : limit \in {Undefined, Num(1)}}

AdapterCalls ==
  ({"fetchByRadius"} \X RadiusArgs)
  \cup ({"fetchByBoundingBox", "fetchCategories"} \X LimitArgs)

\* const { limit = 200 } = query
categoryLimitOf(limit) == IF limit = Undefined THEN Num(200) ELSE limit

\* $limit of the request a method sends
dollarLimitOf(method, args) ==
  CASE method = "fetchByRadius" -> upstreamLimit(args.limit)
    [] method = "fetchByBoundingBox" -> limitOf(args.limit)
    [] method = "fetchCategories" -> categoryLimitOf(args.limit)
    [] OTHER -> Undefined

\* the upstream answers with no more than $limit rows
ResponsesTo(method, dollarLimit) ==
  CASE method = "fetchCategories" ->
         {slice(rows, dollarLimit) : rows \in SeqsUpTo(UpstreamCategoryRows, MaxRows)}
    [] method \in {"fetchByRadius", "fetchByBoundingBox"} ->
         {slice(rows, dollarLimit) : rows \in SeqsUpTo(UpstreamRows, MaxRows)}
    [] OTHER -> {<<>>}

\* what the method makes of { data }
valueOf(method, args, data, uuid) ==
  CASE method = "fetchByRadius" ->
         fetchByRadius(args.lat, args.lng, args.radiusMetres, args.limit, data, uuid)
    [] method = "fetchByBoundingBox" -> fetchByBoundingBox(data, uuid)
    [] method = "fetchCategories" -> fetchCategories(data)
    [] OTHER -> <<>>

\* the body of a 2xx answer: an array of rows; something that is no array
\* (an error object, a page of text, a body cut short, which axios hands
\* on as text); an array with a null in it; an array with a text in it
BodyShapes == {"rows", "object", "nullRow", "textRow"}

JunkText == Str("<html>")

\* data.map / data.filter is not a function, or r.point / r.licencetypes
\* is read of null: the method throws a TypeError
methodThrows(shape) == shape \in {"object", "nullRow"}

\* toBusinessRecord of an element that is a text: every property read of
\* it is undefined
fromText(text, uuid) ==
  [toBusinessRecord([k \in {} |-> Undefined], uuid) EXCEPT !._raw = text]

\* what the method makes of a body with the rows data: fetchByBoundingBox
\* maps every element; the filters of fetchByRadius (lat !== null) and
\* fetchCategories (r.licencetypes) drop an element that is a text
valueOfBody(method, args, data, shape, uuid) ==
  IF shape = "textRow" /\ method = "fetchByBoundingBox"
  THEN Append(valueOf(method, args, data, uuid), fromText(JunkText, uuid))
  ELSE valueOf(method, args, data, uuid)

\* a method of the adapter calls this.client.get('', { params })
Begin(method, args) ==
  /\ call.pc = "idle"
  /\ call' = [IdleCall EXCEPT !.pc = "attempting", !.method = method, !.args = args,
                              !.dollarLimit = dollarLimitOf(method, args)]

\* this.client.get('', ...) is called
StartCall ==
  /\ Begin("get", NoArgs)
  /\ UNCHANGED <<xvars, svars, op, shadow, keyIn, cvars, keyOut>>

\* fetchByBoundingBox, fetchByRadius or fetchCategories is called
CallAdapter ==
  /\ \E c \in AdapterCalls : Begin(c[1], c[2])
  /\ UNCHANGED <<xvars, svars, op, shadow, keyIn, cvars, keyOut>>

\* the request on the wire ends: a 2xx resolves the call and the method
\* returns what it makes of the rows; an error is retried after a delay or
\* rejects the call
AttemptEnds(shapes) ==
  /\ call.pc = "attempting"
  /\ \E outcome \in AttemptOutcomes :
       LET sent == [call EXCEPT !.attempts = @ + 1, !.seen = Append(@, outcome),
                                !.last = outcome]
       IN  IF outcome = "s200"
           THEN \E data \in ResponsesTo(call.method, call.dollarLimit), uuid \in UUIDs,
                   shape \in shapes :
                  call' = IF methodThrows(shape)
                          THEN [sent EXCEPT !.pc = "failed", !.result = "error",
                                            !.data = data, !.shape = shape]
                          ELSE [sent EXCEPT !.pc = "ok", !.result = "data", !.data = data,
                                            !.shape = shape,
                                            !.value = valueOfBody(call.method, call.args,
                                                                  data, shape, uuid)]
           ELSE IF shouldRetry(call.retryCount, outcome)
           THEN call' = [sent EXCEPT !.pc = "backoff", !.retryCount = @ + 1]
           ELSE call' = [sent EXCEPT !.pc = "failed", !.result = "error"]

\* ... of an upstream that answers a 2xx with rows
Attempt ==
  /\ AttemptEnds({"rows"})
  /\ UNCHANGED <<xvars, svars, op, shadow, keyIn, cvars, keyOut>>

\* ... of an upstream that answers a 2xx with any body
AttemptAnyBody ==
  /\ AttemptEnds(BodyShapes)
  /\ UNCHANGED <<xvars, svars, op, shadow, keyIn, cvars, keyOut>>

\* the delay is over: the request is sent again
Backoff ==
  /\ call.pc = "backoff"
  /\ call' = [call EXCEPT !.pc = "attempting"]
  /\ UNCHANGED <<xvars, svars, op, shadow, keyIn, cvars, keyOut>>

\* the caller has the result or the error; the client is free again
Return ==
  /\ call.pc \in {"ok", "failed"}
  /\ call' = IdleCall
  /\ UNCHANGED <<xvars, svars, op, shadow, keyIn, cvars, keyOut>>

NextRetry == StartCall \/ Attempt \/ Backoff \/ Return

SpecRetry == Init /\ [][NextRetry]_vars

\* --- a request handler over the client ---
\* the adapter method a handler calls, with the arguments it passes
adapterCallOf(ep, data) ==
  CASE ep = "nearby" ->
         <<"fetchByRadius",
           [lat |-> data[KLat], lng |-> data[KLng], radiusMetres |-> data[KRadius],
            limit |-> data[KLimit]]>>
    [] ep = "categories" -> <<"fetchCategories", [NoArgs EXCEPT !.limit = data[KLimit]]>>
    [] OTHER -> <<"fetchByBoundingBox", [NoArgs EXCEPT !.limit = data[KLimit]]>>

\* what the handler makes of the adapter's value: the result it caches
\* and sends
handlerResult(ep, value) ==
  CASE ep = "staff" -> ArrOf(toStaffRecords(value))
    [] ep = "categories" -> ArrOf(value)
    [] OTHER -> ArrOf(toPublicRecords(value))

\* const records = await adapter.fetch...(...): the call starts
FetchBegin(s) ==
  /\ req[s].pc = "fetch"
  /\ call.pc \in {"idle", "ok", "failed"}
  /\ LET c == adapterCallOf(req[s].ep, req[s].data)
     IN  call' = [IdleCall EXCEPT !.pc = "attempting", !.method = c[1], !.args = c[2],
                                 !.dollarLimit = dollarLimitOf(c[1], c[2])]
  /\ req' = [req EXCEPT ![s] = [req[s] EXCEPT !.pc = "fetching", !.nUp = 1]]
  /\ UNCHANGED <<phase, usingRedis, redisReady, redisUp, memStore, redisStore, seen, calm>>
  /\ UNCHANGED <<xvars, op, shadow, keyIn, cvars, keyOut, preflight>>

\* the await ends: the handler goes on with the records, or its catch
\* answers 502
FetchEnd(s) ==
  /\ req[s].pc = "fetching"
  /\ call.pc \in {"ok", "failed"}
  /\ req' = [req EXCEPT ![s] =
               IF call.pc = "failed"
               THEN onUpstreamError([req[s] EXCEPT !.upFailed = TRUE])
               ELSE [req[s] EXCEPT !.pc = "store",
                                   !.result = handlerResult(req[s].ep, call.value)]]
  /\ UNCHANGED <<phase, usingRedis, redisReady, redisUp, memStore, redisStore, seen, calm>>
  /\ UNCHANGED <<xvars, hvars, cvars, preflight>>

\* GET /api/v1/businesses?north=1&south=0&east=9&west=1&limit=85
ReceiveUpstream == Receive(1, Request("bbox", QA, <<"none">>), FALSE)

NextUpstream ==
  \/ Connect \/ ReceiveUpstream \/ Lookup(1) \/ FetchBegin(1)
  \/ Attempt
  \/ Backoff \/ FetchEnd(1) \/ Store(1) \/ Respond(1)

SpecUpstream == Init /\ [][NextUpstream]_vars

\* the server over an upstream that answers with any body
NextBody ==
  \/ Connect \/ ReceiveUpstream \/ Lookup(1) \/ FetchBegin(1)
  \/ AttemptAnyBody
  \/ Backoff \/ FetchEnd(1) \/ Store(1) \/ Respond(1)

SpecBody == Init /\ [][NextBody]_vars

NextAdapter == CallAdapter \/ Attempt \/ Backoff \/ Return

SpecAdapter == Init /\ [][NextAdapter]_vars

\* C20 as the specification states it: a call of the adapter's client
\* sends at most 3 requests, the first included, before its failure
\* reaches the caller.
C20_AsSpecified == call.attempts <= 3

\* the errors the specification has retried
RetryableErrors == {"network", "s429", "s500", "s503"}

\* C21: a client-request error (400, 404) is never retried: the call
\* fails with the attempt that met it, after exactly one attempt when it
\* was the first; every attempt that was followed by another met a
\* network failure, a 429 or a status of 500 or above.
C21_ClientErrorNotRetried ==
  /\ call.last \in {"s400", "s404"} => call.pc = "failed" /\ call.result = "error"
  /\ (call.seen # <<>> /\ call.seen[1] \in {"s400", "s404"}) => call.attempts = 1
  /\ call.pc = "backoff" => call.last \in RetryableErrors
  /\ \A i \in 1..(Len(call.seen) - 1) : call.seen[i] \in RetryableErrors

\* C21 witness: the call has failed on a 404 after one attempt.
C21_Witness ==
  /\ call.pc = "failed" /\ call.attempts = 1 /\ call.seen = <<"s404">>
  /\ call.retryCount = 0

\* C22 as the specification states it: an attempt that runs into the
\* client's timeout is retried while retries remain, as one that met a
\* connection failure is.
C22_AsSpecified ==
  (call.last = "timeout" /\ call.attempts <= Retries) => call.pc \in {"backoff", "attempting"}

\* the call's first two attempts met retryable errors and its third a 200
FailedTwiceThenOk(c) ==
  /\ Len(c.seen) = 3
  /\ c.seen[1] \in RetryableErrors /\ c.seen[2] \in RetryableErrors
  /\ c.seen[3] = "s200"

\* C23: after two attempts that failed with retryable errors the client
\* makes a third; when that one succeeds, the handler gets the normalized
\* records of the response and the request is answered 200 (a MISS) with
\* their public projection.
C23_ThirdAttemptSucceeds ==
  LET r == req[1]
      records == fetchByBoundingBox(call.data, "uuid-a")
  IN  /\ (Len(call.seen) = 2 /\ \A i \in 1..2 : call.seen[i] \in RetryableErrors)
           => call.pc \in {"backoff", "attempting"}
      /\ (FailedTwiceThenOk(call) /\ r.nUp = 1) =>
           /\ call.pc = "ok" /\ call.value = records
           /\ r.pc \in {"store", "respond"} => r.result = ArrOf(toPublicRecords(records))
           /\ Answered(r) =>
                /\ r.status = 200 /\ r.xcache = "MISS"
                /\ r.body = Stringify(ArrOf(toPublicRecords(records)))

\* C23 witness: the request has been answered 200 with two records after
\* a 503, a lost connection and a 200.
C23_Witness ==
  /\ Answered(req[1]) /\ req[1].nUp = 1 /\ req[1].status = 200
  /\ call.seen = <<"s503", "network", "s200">>
  /\ call.data = <<Soc3, Soc1>>

\* a finished call of fetchByRadius
RadiusCallDone == call.method = "fetchByRadius" /\ call.pc = "ok"

\* the record has a position and lies within the radius of the query point
WithinRadius(args, rec) ==
  /\ rec.lat[1] = "num" /\ rec.lng[1] = "num"
  /\ haversine(args.lat[2], args.lng[2], rec.lat[2], rec.lng[2]) <= args.radiusMetres[2]

\* the records of the response that lie within the radius, in its order
InsideOf(c) ==
  SelectSeq(fetchByBoundingBox(c.data, "uuid-a"), LAMBDA rec : WithinRadius(c.args, rec))

\* the records of the response that are not in the value returned
MissingFrom(c) ==
  {i \in DOMAIN InsideOf(c) : \A j \in DOMAIN c.value : c.value[j] # InsideOf(c)[i]}

\* C24: every record fetchByRadius returns has a position (numbers, not
\* null) that lies within radiusMetres of the query point; a record whose
\* position is absent is never returned.
C24_NoFalsePositive ==
  RadiusCallDone =>
    \A i \in DOMAIN call.value :
      /\ call.value[i].lat # Null /\ call.value[i].lng # Null
      /\ WithinRadius(call.args, call.value[i])

\* C24 witness: of a row at the query point and a row whose point holds
\* no numbers, fetchByRadius with a radius of 1000 m returned the first.
C24_Witness ==
  /\ RadiusCallDone /\ call.args.radiusMetres = Num(1000)
  /\ call.data = <<SocEmptyPoint, Soc1>>
  /\ Len(call.value) = 1 /\ call.value[1].id = Str("BL-001")

\* C25 as the specification states it: fetchByRadius returns exactly the
\* points of the response that lie within radiusMetres, none beyond it
\* and none of them missing.
C25_AsSpecified == RadiusCallDone => Range(call.value) = Range(InsideOf(call))

\* C25 as amended: no point beyond the radius is returned, and the points
\* within it are returned in full unless there are more than `limit` of
\* them, when the first `limit` are returned.
C25_ExactWithinLimit ==
  RadiusCallDone =>
    /\ \A i \in DOMAIN call.value : WithinRadius(call.args, call.value[i])
    /\ Len(InsideOf(call)) <= limitOf(call.args.limit)[2] => call.value = InsideOf(call)
    /\ MissingFrom(call) # {} =>
         /\ Len(call.value) = limitOf(call.args.limit)[2]
         /\ call.value = SubSeq(InsideOf(call), 1, Len(call.value))

\* C25 witness: of a point 131 km and a point 70 km from the query point,
\* fetchByRadius with a radius of 100 km returned the second only.
C25_Witness ==
  /\ RadiusCallDone /\ call.args.radiusMetres = Num(100000)
  /\ call.data = <<Soc3, SocEast>>
  /\ Len(call.value) = 1 /\ call.value[1].id = Str("BL-004")

\* C26: fetchByRadius sends one request, whose $limit is at least twice
\* the limit asked for (the default included), and returns no more than
\* `limit` records: the first `limit`, in the order of the response, of
\* the records of that response that pass the distance filter.
C26_OverFetchAndTruncate ==
  call.method = "fetchByRadius" =>
    LET limit == limitOf(call.args.limit)[2]
        passing == InsideOf(call)
    IN  /\ call.dollarLimit[1] = "num" /\ call.dollarLimit[2] >= 2 * limit
        /\ Len(call.data) <= call.dollarLimit[2]
        /\ call.pc = "ok" =>
             /\ Len(call.value) <= limit
             /\ call.value =
                  SubSeq(passing, 1, IF limit < Len(passing) THEN limit ELSE Len(passing))

\* C26 witness: asked for one record, fetchByRadius requested two rows,
\* got two within the radius and returned the first.
C26_Witness ==
  /\ RadiusCallDone /\ call.args.limit = Num(1) /\ call.dollarLimit = Num(2)
  /\ call.data = <<SocEast, Soc1>> /\ call.args.radiusMetres = Num(100000)
  /\ Len(call.value) = 1 /\ call.value[1].id = Str("BL-004")

\* a finished call of fetchByBoundingBox
BoxCallDone == call.method = "fetchByBoundingBox" /\ call.pc = "ok"

\* the row has a point whose coordinates are a pair of numbers
ParseablePosition(row) ==
  /\ Field(row, "point")[1] = "obj"
  /\ Field(Field(row, "point")[2], "coordinates")[1] = "arr"
  /\ LET coordinates == Field(row, "point")[2]["coordinates"][2]
     IN  Len(coordinates) >= 2 /\ coordinates[1][1] = "num" /\ coordinates[2][1] = "num"

\* C27 as the specification states it: fetchByBoundingBox returns one
\* record per row of the response, in its order, each with the row kept
\* in _raw, and with lat and lng null when the row has no parseable
\* position.
C27_AsSpecified ==
  BoxCallDone =>
    /\ Len(call.value) = Len(call.data)
    /\ \A i \in DOMAIN call.value :
         /\ call.value[i]._raw = Obj(call.data[i])
         /\ ~ParseablePosition(call.data[i]) =>
              call.value[i].lat = Null /\ call.value[i].lng = Null

\* a finished call of fetchCategories
CategoriesCallDone == call.method = "fetchCategories" /\ call.pc = "ok"

\* C28 as the specification states it: the tuples fetchCategories
\* returns are in descending order of count, and none has an empty or
\* missing category.
C28_AsSpecified ==
  CategoriesCallDone =>
    /\ \A i \in DOMAIN call.value :
         call.value[i].category[1] = "str" /\ call.value[i].category # Str("")
    /\ \A i, j \in DOMAIN call.value :
         (i < j /\ call.value[i].count[1] = "num" /\ call.value[j].count[1] = "num")
           => call.value[i].count[2] >= call.value[j].count[2]

\* the request missed the cache
Missed(r) == r.nGet = 1 /\ r.xcache # "HIT" /\ r.pc # "lookup"

\* C29: every request that missed the cache calls the upstream itself,
\* also while another request for the same key is in flight: it goes on
\* to its own fetch, and when the upstream answers it writes the cache
\* and is answered 200 as a MISS.
C29_NoCoalescing ==
  \A s \in Slots :
    LET r == req[s]
    IN  Missed(r) =>
          /\ r.pc \in {"fetch", "store", "respond", "done"}
          /\ r.pc \in {"store", "respond", "done"} => r.nUp = 1
          /\ r.pc = "respond" => r.nSet = 1
          /\ Answered(r) =>
               \/ r.upFailed /\ r.status = 502
               \/ r.status = 200 /\ r.xcache = "MISS" /\ r.nSet = 1

\* C29 witness: two requests with the same parameters are in flight
\* together, both missed, both have called the upstream and written the
\* cache, and neither is answered yet.
C29_Witness ==
  /\ req[1].ep = req[2].ep /\ req[1].query = req[2].query
  /\ req[1].key = req[2].key
  /\ \A s \in {1, 2} : req[s].pc = "respond" /\ req[s].nUp = 1 /\ req[s].nSet = 1

\* C30 as the project's verification plan states it: identical requests
\* sent in rapid succession against an empty cache cause one call of the
\* upstream.
C30_AsSpecified ==
  \A s, t \in Slots :
    (s # t /\ req[s].ep = req[t].ep /\ req[s].query = req[t].query)
      => ~(/\ req[s].nUp = 1 /\ ~req[s].upFailed
           /\ req[t].nUp = 1 /\ ~req[t].upFailed)

(***************************************************************************)
(* Claims about CacheService                                               *)
(***************************************************************************)
\* the backend a call met could not serve it: the RedisBackend, not ready
\* or with its connection gone
MetUnavailable(o) == o.viaRedis /\ ~(o.ready /\ o.up)

\* C11: get, set and invalidate never raise to the caller, whatever the
\* backend (fallback, Redis ready, Redis not ready, Redis command failing):
\* get answers null when the backend cannot serve it or holds no JSON, and
\* set and invalidate return normally.
C11_CacheNeverRaises ==
  op.name # "none" =>
    /\ ~op.raised
    /\ (op.name = "get" /\ (MetUnavailable(op) \/ op.corrupt)) => op.result = Null

\* C11 witness: a get that met the RedisBackend ready with its connection
\* gone (the command is rejected) while the server holds the key.
C11_Witness ==
  /\ op.name = "get" /\ op.viaRedis /\ op.ready /\ ~op.up
  /\ op.key \in DOMAIN redisStore
  /\ op.result = Null

\* C13 as the specification states it: every set and invalidate called
\* while the backend is unavailable is a no-op and records a warning.
C13_AsSpecified ==
  (op.name \in {"set", "invalidate"} /\ MetUnavailable(op)) =>
    op.wrote = "none" /\ op.warned

\* C15: once connect() has returned, isRedis is true exactly if the
\* pre-flight of a non-test process ended ready; after a refused or timed
\* out pre-flight, and in test mode (where no client exists and nothing
\* ever connects), isRedis is false and writes go to the in-process store.
C15_SelectionFollowsPreflight ==
  /\ phase = "boot" => ~usingRedis
  /\ phase = "serving" =>
       /\ usingRedis <=> preflight = "ready"
       /\ preflight = "test" => ~redisReady /\ ~redisUp
       /\ op.wrote # "none" =>
            op.wrote = (IF preflight = "ready" THEN "redis" ELSE "mem")

\* C15 witness: after a pre-flight that timed out the client has since
\* come up and reported ready, and a set was written to the in-process
\* store all the same.
C15_Witness ==
  /\ preflight = "timeout" /\ redisUp /\ redisReady
  /\ op.name = "set" /\ op.wrote = "mem"
  /\ op.key \in DOMAIN memStore /\ redisStore = EmptyStore

\* C16: on the fallback backend every get(k) answers null if k was never
\* set, or was invalidated or expired since its last set, and otherwise a
\* value equal to the one given to the last set(k), object or array; this
\* holds for every key at every moment, so no operation on one key changes
\* what get answers for another.
C16_FallbackGetSetInvalidate ==
  ~usingRedis =>
    /\ \A k \in CacheKeys :
         cacheGet(k) = (IF k \in DOMAIN shadow THEN shadow[k] ELSE Null)
    /\ op.name = "get" => op.result = op.expected

\* C16 witness: a get on the fallback answered the value last set under
\* its key while the other key, set earlier, is gone again.
C16_Witness ==
  /\ phase = "serving" /\ ~usingRedis
  /\ op.name = "get" /\ op.result \in CacheValues
  /\ DOMAIN memStore = {op.key}
  /\ DOMAIN shadow = {op.key}

\* C17: while the selected RedisBackend is in the error state (its error
\* event has cleared ready and no ready event has come since), every get
\* answers null, every set and invalidate writes nothing, and none raises.
C17_NotReadyIsMiss ==
  (op.name # "none" /\ op.viaRedis /\ ~op.ready) =>
    /\ ~op.raised
    /\ op.name = "get" => op.result = Null
    /\ op.name \in {"set", "invalidate"} => op.wrote = "none"

\* C17 witness: a get in the error state answered null although the
\* server is reachable again and holds a sound entry for the key.
C17_Witness ==
  /\ op.name = "get" /\ op.viaRedis /\ ~op.ready /\ op.up
  /\ op.key \in DOMAIN redisStore
  /\ WellFormed(redisStore[op.key].text)
  /\ op.result = Null

\* C12: a request whose key holds a text that cannot be parsed goes the
\* way of a miss: no HIT, the upstream is called, and the answer is the
\* 200 of a miss or the 502 of a failed fetch.
C12_CorruptEntryIsMiss ==
  LET r == req[1]
  IN  r.corrupt =>
        /\ r.xcache # "HIT"
        /\ r.nGet = 1
        /\ \/ r.pc \in {"fetch", "store", "respond"}
           \/ Answered(r) /\ r.nUp = 1 /\ r.status \in {200, 502}

\* C12 witness: a request that met a corrupt entry has been answered 200
\* as a miss and its set has put a sound entry in the corrupt one's place.
C12_Witness ==
  /\ Answered(req[1]) /\ req[1].corrupt
  /\ req[1].status = 200 /\ req[1].xcache = "MISS" /\ req[1].stored
  /\ WellFormed(redisStore[req[1].key].text)

\* C14: once connect() has returned, isRedis (and with it the active
\* backend) never changes, whatever the client's connection does, whatever
\* ready and error events it emits and however many requests are served.
C14_SelectionIsFinal ==
  [][phase = "serving" => usingRedis' = usingRedis]_vars

\* C14 witness: after a refused pre-flight the client has come up and
\* reported ready, a request has been answered, and the fallback is still
\* the backend.
C14_Witness ==
  /\ preflight = "refused" /\ redisUp /\ redisReady
  /\ Answered(req[1]) /\ req[1].status = 200
  /\ ~usingRedis /\ req[1].key \in DOMAIN memStore
(***************************************************************************)
(* staff.routes.ts: POST /auth/login and POST /auth/refresh                *)
(*                                                                         *)
(* A token is its payload (sub, email, role) and the expiry it was signed  *)
(* with: JWT_ACCESS_EXPIRES_IN for an access token, JWT_REFRESH_EXPIRES_IN *)
(* for a refresh token.  Both are signed with the one JWT_SECRET.          *)
(* session.issued maps the tokens signed so far to "live" or "expired".    *)
(* What a client presents is undefined, the empty text, <<"forged">> (not  *)
(* signed with the secret) or <<"jwt", token>>.                            *)
(***************************************************************************)
Emails == {"a@gov.ab.ca", "b@gov.ab.ca"}

\* the bodies of POST /auth/login: the password is given by its length
LoginBodies ==
  [email : Emails \cup {"not-an-address"}, passwordLength : {5, 8}]

\* loginSchema.safeParse(req.body).success
loginParses(body) == body.email \in Emails /\ body.passwordLength >= 8

\* const payload = { sub: email, email, role: 'staff' }
payloadOf(email) == [sub |-> email, email |-> email, role |-> "staff"]

\* jwt.sign(payload, env.JWT_SECRET, { expiresIn })
sign(payload, expiresIn) ==
  [sub |-> payload.sub, email |-> payload.email, role |-> payload.role,
   expiresIn |-> expiresIn]

\* what POST /auth/refresh may find in req.body.refreshToken
Presented(issued) ==
  {Undefined, Str(""), <<"forged">>} \cup {<<"jwt", t>> : t \in DOMAIN issued}

\* jwt.verify(refreshToken, env.JWT_SECRET): the payload, or a throw
verify(presented, issued) ==
  IF presented[1] # "jwt" THEN <<"throw", "invalid">>
  ELSE IF issued[presented[2]] = "expired" THEN <<"throw", "expired">>
  ELSE <<"ok", presented[2]>>

\* router.post('/auth/login', ...)
Login ==
  /\ \E body \in LoginBodies :
       IF ~loginParses(body)
       THEN session' = [session EXCEPT !.last =
                          [route |-> "login", status |-> 400,
                           error |-> "Invalid credentials format"]]
       ELSE LET accessToken == sign(payloadOf(body.email), "JWT_ACCESS_EXPIRES_IN")
                refreshToken == sign(payloadOf(body.email), "JWT_REFRESH_EXPIRES_IN")
            IN  session' =
                  [issued |-> With(With(session.issued, accessToken, "live"),
                                   refreshToken, "live"),
                   last |-> [route |-> "login", status |-> 200,
                             accessToken |-> accessToken,
                             refreshToken |-> refreshToken]]
  /\ UNCHANGED <<xvars, svars, hvars, biz, addr, geo>>

\* router.post('/auth/refresh', ...)
Refresh ==
  /\ \E presented \in Presented(session.issued) :
       IF presented \in {Undefined, Str("")}
       THEN session' = [session EXCEPT !.last =
                          [route |-> "refresh", presented |-> presented, status |-> 400,
                           error |-> "refreshToken is required"]]
       ELSE LET verified == verify(presented, session.issued)
            IN  IF verified[1] = "throw"
                THEN session' = [session EXCEPT !.last =
                                   [route |-> "refresh", presented |-> presented,
                                    status |-> 401, why |-> verified[2],
                                    error |-> "Invalid or expired refresh token"]]
                ELSE LET accessToken == sign(verified[2], "JWT_ACCESS_EXPIRES_IN")
                     IN  session' =
                           [issued |-> With(session.issued, accessToken, "live"),
                            last |-> [route |-> "refresh", presented |-> presented,
                                      status |-> 200, accessToken |-> accessToken]]
  /\ UNCHANGED <<xvars, svars, hvars, biz, addr, geo>>

\* the expiry of a token passes
TokenExpires ==
  /\ \E t \in DOMAIN session.issued :
       /\ session.issued[t] = "live"
       /\ session' = [session EXCEPT !.issued[t] = "expired"]
  /\ UNCHANGED <<xvars, svars, hvars, biz, addr, geo>>

NextAuth == Login \/ Refresh \/ TokenExpires

SpecAuth == Init /\ [][NextAuth]_vars

(***************************************************************************)
(* The client: useBusinessData under MapView                               *)
(*                                                                         *)
(* biz.inflight holds the bounding-box and nearby fetches awaiting their   *)
(* answer, in the order they were started; passed (history) says that a    *)
(* fetch started later has been answered already.  biz.last (history) is   *)
(* the last thing that happened.                                           *)
(***************************************************************************)
\* the most fetches awaiting their answer
MaxPending == 3

\* the lists of records a response may carry
Payloads == {<<>>, <<"BL-001">>, <<"BL-001", "BL-002">>}

Points == {[lat |-> 51, lng |-> -114], [lat |-> 53, lng |-> -113]}

Radii == {1000, 5000}

Categories == {Str("RETAIL DEALER")}

\* Maps a search radius to an appropriate map zoom level
radiusToZoom(radiusMetres) ==
  IF radiusMetres <= 500 THEN 16
  ELSE IF radiusMetres <= 1000 THEN 15
  ELSE IF radiusMetres <= 2000 THEN 14
  ELSE IF radiusMetres <= 5000 THEN 13
  ELSE 12

\* setError(...) in the catch of the two fetches
loadError(kind) ==
  IF kind = "nearby"
  THEN Str("Unable to load nearby businesses. Please try again.")
  ELSE Str("Unable to load business data. Please try again.")

\* fetchByBoundingBox / fetchNearby up to their await
fetchStarted(b, kind) ==
  [b EXCEPT !.businessesLoading = TRUE, !.error = Null,
            !.inflight = Append(@, [kind |-> kind, passed |-> FALSE])]

\* the sequence q without its i-th element; the elements before it have
\* been passed when the i-th was answered
Answered1(q, i) ==
  [j \in 1..(Len(q) - 1) |->
     IF j < i THEN [q[j] EXCEPT !.passed = TRUE] ELSE q[j + 1]]

\* a hook that drops the answer to a fetch when a later one has been
\* answered before it
appliesLatestOnly(fetch) == ~fetch.passed

\* setBusinesses(data) runs for every answer, whatever was started or
\* answered in between
applies(fetch) == TRUE

\* finally { setBusinessesLoading(false) }
loadingAfter(others) == FALSE

\* handleNearbySearch(query) of MapView (the fly-to sequence number only
\* tells equal targets apart)
nearbySearch(b, point, radius) ==
  [fetchStarted(b, "nearby") EXCEPT
     !.selectedCategory = Null,
     !.flyToTarget = Obj([lat |-> point.lat, lng |-> point.lng,
                          zoom |-> radiusToZoom(radius)])]

\* MapBoundsHandler's moveend (a pan, a zoom, the end of a fly-to):
\* handleBoundsChange(bbox)
BoundsChange ==
  /\ Len(biz.inflight) < MaxPending
  /\ biz' = [fetchStarted(biz, "bbox") EXCEPT
               !.selectedCategory = Null,
               !.last = [op |-> "bounds"]]
  /\ UNCHANGED <<xvars, svars, hvars, session, addr, geo>>

\* handleSelect(suggestion) and the callback of handleLocate, as far as
\* MapView is concerned: onCoordsChange(coords); onSearch({lat, lng, radius})
SelectPoint ==
  /\ Len(biz.inflight) < MaxPending
  /\ \E p \in Points :
       biz' = [nearbySearch([biz EXCEPT !.selectedCoords = Obj(p)], p, biz.radius) EXCEPT
                 !.last = [op |-> "select"]]
  /\ UNCHANGED <<xvars, svars, hvars, session, addr, geo>>

\* onRadiusChange(radius), and the effect of ProximitySearch on [radius]:
\* if (selectedCoords) onSearch({ ...selectedCoords, radius })
RadiusChange ==
  /\ Len(biz.inflight) < MaxPending
  /\ \E r \in Radii \ {biz.radius} :
       LET b == [biz EXCEPT !.radius = r, !.last = [op |-> "radius"]]
       IN  biz' = IF biz.selectedCoords # Null
                  THEN nearbySearch(b, biz.selectedCoords[2], r)
                  ELSE b
  /\ UNCHANGED <<xvars, svars, hvars, session, addr, geo>>

\* handleInputChange (typing after a selection) and handleClear:
\* onCoordsChange(null)
CoordsCleared ==
  /\ biz.selectedCoords # Null
  /\ biz' = [biz EXCEPT !.selectedCoords = Null, !.last = [op |-> "unpin"]]
  /\ UNCHANGED <<xvars, svars, hvars, session, addr, geo>>

\* handleSelectCategory(cat)
SelectCategory ==
  /\ \E c \in (Categories \cup {Null}) \ {biz.selectedCategory} :
       biz' = [biz EXCEPT !.selectedCategory = c, !.last = [op |-> "category"]]
  /\ UNCHANGED <<xvars, svars, hvars, session, addr, geo>>

\* axios.get resolves: setBusinesses(data), then the finally
FetchSucceeds ==
  /\ \E i \in DOMAIN biz.inflight, data \in Payloads :
       LET f == biz.inflight[i]
           rest == Answered1(biz.inflight, i)
       IN  biz' = [biz EXCEPT
                     !.businesses = IF applies(f) THEN data ELSE @,
                     !.businessesLoading = loadingAfter(Len(rest)),
                     !.inflight = rest,
                     !.shown = f.kind,
                     !.lastOk = data,
                     !.last = [op |-> "ok", kind |-> f.kind, passed |-> f.passed,
                               data |-> data, before |-> biz.businesses,
                               shownBefore |-> biz.shown]]
  /\ UNCHANGED <<xvars, svars, hvars, session, addr, geo>>

\* axios.get rejects: the catch, then the finally
FetchFails ==
  /\ \E i \in DOMAIN biz.inflight :
       LET f == biz.inflight[i]
           rest == [j \in 1..(Len(biz.inflight) - 1) |->
                      IF j < i THEN biz.inflight[j] ELSE biz.inflight[j + 1]]
       IN  biz' = [biz EXCEPT
                     !.error = loadError(f.kind),
                     !.businessesLoading = loadingAfter(Len(rest)),
                     !.inflight = rest,
                     !.last = [op |-> "failed", kind |-> f.kind,
                               before |-> biz.businesses]]
  /\ UNCHANGED <<xvars, svars, hvars, session, addr, geo>>

\* clearError of useBusinessData (the error banner's button)
DismissError ==
  /\ biz.error # Null
  /\ biz' = [biz EXCEPT !.error = Null, !.last = [op |-> "dismiss"]]
  /\ UNCHANGED <<xvars, svars, hvars, session, addr, geo>>

NextMapView ==
  \/ BoundsChange \/ SelectPoint \/ RadiusChange \/ CoordsCleared \/ SelectCategory
  \/ FetchSucceeds \/ FetchFails \/ DismissError

SpecMapView == Init /\ [][NextMapView]_vars

(***************************************************************************)
(* The client: useAddressSearch over useDebounce                           *)
(*                                                                         *)
(* addr.timer is the value the pending setTimeout of useDebounce will      *)
(* write (null: no timer); addr.ranWith is the dependency list             *)
(* [debouncedQuery, isSelected] the search effect last ran with, and       *)
(* addr.cleanup says whether that run returned a cleanup function.         *)
(* addr.requests holds the fetches that have not settled: their query,     *)
(* whether their controller was aborted, and whether the controller is     *)
(* the one in abortRef.  quiet and asked are history: a selection has been *)
(* made and the input not changed since; a request was issued since then.  *)
(***************************************************************************)
\* what the user may type
Typed == {"", "ab", "main st", "main st ", "main str"}

\* a result of Nominatim
MainStreet == [display_name |-> "Main St NW, Calgary", lat |-> "51.05", lon |-> "-114.07"]

SuggestionLists == {<<>>, <<MainStreet>>}

\* value.trim()
Trim(text) == IF text = "main st " THEN "main st" ELSE text

\* text.length
TextLength(text) ==
  CASE text = "" -> 0
    [] text = "ab" -> 2
    [] text = "main st" -> 7
    [] text = "main st " -> 8
    [] text = "main str" -> 8
    [] text = "Main St NW, Calgary" -> 19
    [] text = "My Current Location" -> 19

MIN_QUERY_LENGTH == 3

\* setInputValue(text), and the effect of useDebounce on [value]: the old
\* timer is cleared and a new one set when the trimmed value has changed
inputSet(a, text) ==
  [a EXCEPT !.inputValue = text,
            !.timer = IF Trim(text) # Trim(a.inputValue) THEN Str(Trim(text)) ELSE @]

\* clearSuggestions(selected)
clearSuggestions(a, selected) ==
  [a EXCEPT !.suggestions = <<>>, !.status = "idle",
            !.isSelected = IF selected THEN TRUE ELSE @]

\* controller.abort() on the controller in abortRef
abortCurrent(requests) ==
  [i \in DOMAIN requests |->
     IF requests[i].current THEN [requests[i] EXCEPT !.aborted = TRUE] ELSE requests[i]]

\* an effect whose cleanup aborts nothing
cleanedUpNothing(a) == a.requests

\* the cleanup of the last run of the search effect, if it returned one:
\* controller.abort()
cleanedUp(a) == IF a.cleanup THEN abortCurrent(a.requests) ELSE a.requests

\* a render has changed [debouncedQuery, isSelected]: the effect is due
EffectDue == <<addr.debounced, addr.isSelected>> # addr.ranWith

Live(requests) == {i \in DOMAIN requests : ~requests[i].aborted}

\* isOpen of ProximitySearch
IsOpen == Len(addr.suggestions) > 0 /\ addr.status = "success"

\* handleInputChange(value)
Type ==
  /\ ~EffectDue
  /\ \E text \in Typed \ {addr.inputValue} :
       addr' = [inputSet(addr, text) EXCEPT !.quiet = FALSE, !.last = [op |-> "type"]]
  /\ UNCHANGED <<xvars, svars, hvars, session, biz, geo>>

\* the timer of useDebounce fires: setDebounced(value)
DebounceFires ==
  /\ ~EffectDue
  /\ addr.timer # Null
  /\ addr' = [addr EXCEPT !.debounced = addr.timer[2], !.timer = Null,
                          !.last = [op |-> "debounce"]]
  /\ UNCHANGED <<xvars, svars, hvars, session, biz, geo>>

\* the search effect of useAddressSearch runs (after the cleanup of its
\* last run)
RunEffect ==
  /\ EffectDue
  /\ LET ran == [addr EXCEPT !.ranWith = <<addr.debounced, addr.isSelected>>,
                             !.requests = cleanedUp(addr)]
     IN  IF addr.isSelected
         THEN addr' = [ran EXCEPT !.isSelected = FALSE, !.cleanup = FALSE,
                                  !.last = [op |-> "effect", branch |-> "selected"]]
         ELSE IF TextLength(addr.debounced) < MIN_QUERY_LENGTH
         THEN addr' = [ran EXCEPT !.suggestions = <<>>, !.status = "idle",
                                  !.cleanup = FALSE,
                                  !.last = [op |-> "effect", branch |-> "short"]]
         ELSE /\ Len(addr.requests) < MaxPending
              /\ addr' =
                   [ran EXCEPT
                      !.requests =
                         Append([i \in DOMAIN ran.requests |->
                                   [abortCurrent(ran.requests)[i] EXCEPT !.current = FALSE]],
                                [q |-> addr.debounced, aborted |-> FALSE, current |-> TRUE]),
                      !.status = "loading", !.cleanup = TRUE, !.asked = TRUE,
                      !.last = [op |-> "effect", branch |-> "fetch"]]
  /\ UNCHANGED <<xvars, svars, hvars, session, biz, geo>>

\* a fetch settles: with an AbortError when its controller was aborted,
\* else with a list, with a status that is not ok, or with a network error
Settle ==
  /\ \E i \in DOMAIN addr.requests, outcome \in {"ok", "http", "network"},
        data \in SuggestionLists :
       LET r == addr.requests[i]
           rest == [j \in 1..(Len(addr.requests) - 1) |->
                      IF j < i THEN addr.requests[j] ELSE addr.requests[j + 1]]
           done == [addr EXCEPT !.requests = rest,
                                !.last = [op |-> "settled", aborted |-> r.aborted,
                                          suggestions |-> addr.suggestions,
                                          status |-> addr.status]]
       IN  addr' = IF r.aborted THEN done
                   ELSE IF outcome = "ok"
                   THEN [done EXCEPT !.suggestions = data,
                                     !.status = IF Len(data) = 0 THEN "empty" ELSE "success"]
                   ELSE [done EXCEPT !.suggestions = <<>>, !.status = "error"]
  /\ UNCHANGED <<xvars, svars, hvars, session, biz, geo>>

\* handleSelect(suggestion), as far as the hook is concerned
Select ==
  /\ ~EffectDue /\ IsOpen
  /\ \E i \in DOMAIN addr.suggestions :
       addr' = [clearSuggestions(inputSet(addr, addr.suggestions[i].display_name), TRUE)
                  EXCEPT !.quiet = TRUE, !.asked = FALSE, !.last = [op |-> "select"]]
  /\ UNCHANGED <<xvars, svars, hvars, session, biz, geo>>

\* the callback handleLocate hands to locate, as far as the hook is
\* concerned
SelectHere ==
  /\ ~EffectDue
  /\ addr' = [clearSuggestions(inputSet(addr, "My Current Location"), TRUE)
                EXCEPT !.quiet = TRUE, !.asked = FALSE, !.last = [op |-> "here"]]
  /\ UNCHANGED <<xvars, svars, hvars, session, biz, geo>>

\* handleClear
ClearInput ==
  /\ ~EffectDue
  /\ addr.inputValue # ""
  /\ addr' = [clearSuggestions(inputSet(addr, ""), FALSE)
                EXCEPT !.quiet = FALSE, !.last = [op |-> "clear"]]
  /\ UNCHANGED <<xvars, svars, hvars, session, biz, geo>>

\* Escape or Tab on the open list
CloseList ==
  /\ ~EffectDue /\ IsOpen
  /\ addr' = [clearSuggestions(addr, FALSE) EXCEPT !.last = [op |-> "close"]]
  /\ UNCHANGED <<xvars, svars, hvars, session, biz, geo>>

NextAddressSearch ==
  \/ Type \/ DebounceFires \/ RunEffect \/ Settle
  \/ Select \/ SelectHere \/ ClearInput \/ CloseList

SpecAddressSearch == Init /\ [][NextAddressSearch]_vars

(***************************************************************************)
(* The client: useGeolocation                                              *)
(*                                                                         *)
(* geo.api says whether navigator.geolocation exists (learnt at the first  *)
(* locate); geo.pending holds the onSuccess callbacks of the                *)
(* getCurrentPosition calls that have not called back.                     *)
(***************************************************************************)
\* the sequence q without its i-th element
Drop(q, i) == [j \in 1..(Len(q) - 1) |-> IF j < i THEN q[j] ELSE q[j + 1]]

\* err.code of a GeolocationPositionError, and a code that is none of them
PositionErrors == {"PERMISSION_DENIED", "POSITION_UNAVAILABLE", "TIMEOUT", "other"}

\* the switch (err.code) of the error callback
positionErrorText(code) ==
  CASE code = "PERMISSION_DENIED" ->
         Str("Location access was denied. Allow location in your browser settings, or search by address.")
    [] code = "POSITION_UNAVAILABLE" ->
         Str("Your location could not be determined. Try searching by address instead.")
    [] code = "TIMEOUT" -> Str("Location request timed out. Please try again.")
    [] OTHER -> Str("Unable to retrieve your location. Please try again or search by address.")

\* the callbacks callers hand to locate
Callbacks == {"onSuccess1", "onSuccess2"}

\* locate(onSuccess)
Locate ==
  /\ Len(geo.pending) < MaxPending
  /\ \E api \in IF geo.api = "unknown" THEN {"present", "absent"} ELSE {geo.api},
        onSuccess \in Callbacks :
       geo' = IF api = "absent"
              THEN [geo EXCEPT
                      !.api = api, !.status = "error",
                      !.error = Str("Your browser does not support location access. Try searching by address."),
                      !.last = [op |-> "locate"]]
              ELSE [geo EXCEPT
                      !.api = api, !.status = "locating", !.error = Null,
                      !.pending = Append(@, onSuccess), !.last = [op |-> "locate"]]
  /\ UNCHANGED <<xvars, svars, hvars, session, biz, addr>>

\* the success callback of getCurrentPosition: setStatus('idle');
\* onSuccess(coords)
Located ==
  /\ \E i \in DOMAIN geo.pending, p \in Points :
       geo' = [geo EXCEPT !.status = "idle", !.pending = Drop(@, i),
                          !.last = [op |-> "success", called |-> geo.pending[i],
                                    coords |-> p]]
  /\ UNCHANGED <<xvars, svars, hvars, session, biz, addr>>

\* the error callback of getCurrentPosition
LocateFailed ==
  /\ \E i \in DOMAIN geo.pending, code \in PositionErrors :
       geo' = [geo EXCEPT !.status = "error", !.error = positionErrorText(code),
                          !.pending = Drop(@, i), !.last = [op |-> "failure", code |-> code]]
  /\ UNCHANGED <<xvars, svars, hvars, session, biz, addr>>

\* clearError of useGeolocation
ClearGeoError ==
  /\ geo' = [geo EXCEPT !.status = "idle", !.error = Null, !.last = [op |-> "clear"]]
  /\ UNCHANGED <<xvars, svars, hvars, session, biz, addr>>

NextGeolocation == Locate \/ Located \/ LocateFailed \/ ClearGeoError

SpecGeolocation == Init /\ [][NextGeolocation]_vars

(***************************************************************************)
(* C31: an entry expires by its TTL alone.  Every entry was written with   *)
(* 3600 s (public) or 900 s (staff) and is younger than that; a request    *)
(* whose key has lifetime left at its lookup is a HIT, and one that comes  *)
(* when the lifetime is over is not: it has called upstream by the time it *)
(* answers.                                                                *)
(***************************************************************************)
StoredBy(store, ttl, eps) ==
  \A k \in DOMAIN store :
    store[k].by[1] \in eps => store[k].ttl = ttl /\ store[k].age < ttl

LookedUp(r) == r.nGet = 1 /\ r.due >= 0

C31_ExpiresByTtl ==
  /\ StoredBy(memStore, 3600, PublicEndpoints) /\ StoredBy(redisStore, 3600, PublicEndpoints)
  /\ StoredBy(memStore, 900, {"staff"}) /\ StoredBy(redisStore, 900, {"staff"})
  /\ \A s \in DOMAIN req :
       LookedUp(req[s]) =>
         /\ req[s].due > 0 => req[s].xcache = "HIT" /\ req[s].nUp = 0
         /\ req[s].due = 0 =>
              /\ req[s].xcache # "HIT"
              /\ req[s].pc = "done" => req[s].nUp = 1

\* a staff request answered from upstream after the entry of the one before
\* it ran out
C31_Witness ==
  /\ req[1].ep = "staff" /\ req[1].pc = "done" /\ req[1].repeat
  /\ req[1].due = 0 /\ req[1].status = 200 /\ req[1].xcache = "MISS" /\ req[1].nUp = 1
  /\ req[1].left = 900

(***************************************************************************)
(* C32: as specified, a request whose upstream call ended in failure, or   *)
(* was answered with a body that is no array of records, is answered 502   *)
(* "Upstream data source unavailable", and nothing is cached for it.       *)
(* Fails: an array with a text in it is mapped to a record of defaults,    *)
(* sent with status 200 and cached.                                        *)
(***************************************************************************)
NoUsableAnswer(c) == c.pc = "failed" \/ (c.pc = "ok" /\ c.shape # "rows")

C32_AsSpecified ==
  LET r == req[1]
  IN  (r.nUp = 1 /\ r.pc \in {"store", "respond", "done"} /\ NoUsableAnswer(call)) =>
        /\ r.pc = "done" /\ r.status = 502
        /\ r.body = errorBody("Upstream data source unavailable")
        /\ r.nSet = 0 /\ ~r.stored
        /\ r.key \notin DOMAIN memStore \cup DOMAIN redisStore

(***************************************************************************)
(* C33: as specified, POST /auth/refresh answers 400 without a token, 401  *)
(* to an invalid or expired one, and 200 only to a token that was issued   *)
(* as a refresh token, the new access token carrying its subject, email    *)
(* and role.  Fails: an access token from /auth/login is accepted.         *)
(***************************************************************************)
C33_AsSpecified ==
  LET l == session.last
  IN  l.route = "refresh" =>
        /\ l.presented \in {Undefined, Str("")} => l.status = 400
        /\ l.presented = <<"forged">> => l.status = 401
        /\ l.status = 200 =>
             /\ l.presented[1] = "jwt"
             /\ l.presented[2].expiresIn = "JWT_REFRESH_EXPIRES_IN"
             /\ l.accessToken.expiresIn = "JWT_ACCESS_EXPIRES_IN"
             /\ payloadOf(l.presented[2].email) =
                  [k \in {"sub", "email", "role"} |-> l.accessToken[k]]

(***************************************************************************)
(* C34: while the RedisBackend is the selected backend and in error, no    *)
(* step reads or writes the in-process fallback (it holds nothing and      *)
(* stays so), no step writes a key of the Redis server, a lookup ends in   *)
(* the miss path (the upstream call is next) and never in a HIT, and a     *)
(* handler's set stores nothing.                                           *)
(***************************************************************************)
\* the RedisBackend is selected and has reported an error (it is not ready)
\* or its connection is lost
ErrorState == usingRedis /\ ~(redisReady /\ redisUp)

C34_ErrorStateBypassesCaches ==
  [][ErrorState =>
       /\ memStore = EmptyStore /\ memStore' = memStore
       /\ \A k \in DOMAIN redisStore' :
            k \in DOMAIN redisStore /\ redisStore'[k] = redisStore[k]
       /\ \A s \in DOMAIN req :
            /\ (req[s].pc = "lookup" /\ req'[s].pc # "lookup") => req'[s].pc = "fetch"
            /\ (req[s].pc = "fetch" /\ req'[s].pc # "fetch") => req'[s].nUp = 1
            /\ (req[s].pc = "store" /\ req'[s].pc # "store") =>
                 req'[s].nSet = 1 /\ ~req'[s].stored
            /\ req'[s].xcache = "HIT" => req[s].xcache = "HIT"]_vars

\* a request identical to the one before it is answered from upstream,
\* with nothing stored, although the Redis server still holds the entry of
\* the first
C34_Witness ==
  /\ usingRedis /\ ~redisReady /\ memStore = EmptyStore
  /\ req[1].pc = "done" /\ req[1].repeat /\ req[1].status = 200
  /\ req[1].xcache = "MISS" /\ req[1].nUp = 1 /\ req[1].nSet = 1 /\ ~req[1].stored
  /\ req[1].key \in DOMAIN redisStore

(***************************************************************************)
(* C35: as specified, businessesLoading is true exactly while a            *)
(* bounding-box or nearby fetch is awaiting its answer.  Fails: of two     *)
(* overlapping fetches the one answered first puts the flag down.          *)
(***************************************************************************)
C35_AsSpecified == biz.businessesLoading <=> Len(biz.inflight) > 0

(***************************************************************************)
(* C36: businesses is the payload of the successful fetch answered last    *)
(* (empty before the first); a fetch that failed has set its error message *)
(* and left businesses as they were; the answer to a fetch that a later    *)
(* one has overtaken replaces the later one's data.                        *)
(***************************************************************************)
C36_LastAnswerWins ==
  /\ biz.businesses = biz.lastOk
  /\ biz.last.op = "failed" =>
       biz.error = loadError(biz.last.kind) /\ biz.businesses = biz.last.before
  /\ biz.last.op = "ok" => biz.businesses = biz.last.data

\* the answer to the earlier of two fetches came after the answer to the
\* later one and replaced its data
C36_Witness ==
  /\ biz.last.op = "ok" /\ biz.last.passed
  /\ biz.last.before # biz.last.data /\ biz.last.before # <<>>
  /\ biz.businesses = biz.last.data

(***************************************************************************)
(* C40: as specified, when the data of a bounding-box fetch has replaced    *)
(* the results of a nearby search, selectedCoords is null.  Fails:         *)
(* handleBoundsChange never touches selectedCoords.                        *)
(***************************************************************************)
C40_AsSpecified ==
  (biz.last.op = "ok" /\ biz.last.kind = "bbox" /\ biz.last.shownBefore = "nearby")
    => biz.selectedCoords = Null

(***************************************************************************)
(* C39: as specified, error is non-null exactly when status is 'error',    *)
(* and status is 'locating' only while a locate awaits its callback.       *)
(* Fails: the success callback leaves error as it is, so a locate that     *)
(* succeeds after an overlapping one has failed ends idle with an error    *)
(* message.                                                                *)
(***************************************************************************)
C39_AsSpecified ==
  /\ geo.error # Null <=> geo.status = "error"
  /\ geo.status = "locating" => Len(geo.pending) > 0

(***************************************************************************)
(* C37: as specified, from a selection made through clearSuggestions(true) *)
(* until the user changes the input, no request is issued, suggestions     *)
(* stay empty and status stays 'idle'.  Fails: isSelected is a dependency  *)
(* of the effect that resets it, so the effect runs once more and fetches. *)
(***************************************************************************)
C37_AsSpecified ==
  addr.quiet => ~addr.asked /\ addr.suggestions = <<>> /\ addr.status = "idle"

(***************************************************************************)
(* C38: at most one fetch that was not aborted is in flight, and once the  *)
(* effect has run it is the one for the debounced query; no fetch is for a *)
(* query shorter than three characters; a fetch that was aborted has left  *)
(* suggestions and status as they were when it settled; the effect run on  *)
(* a short query has left suggestions empty, status 'idle' and no fetch    *)
(* that was not aborted.                                                   *)
(***************************************************************************)
C38_OneLiveRequest ==
  /\ Cardinality(Live(addr.requests)) <= 1
  /\ ~EffectDue => \A i \in Live(addr.requests) : addr.requests[i].q = addr.debounced
  /\ \A i \in DOMAIN addr.requests : TextLength(addr.requests[i].q) >= MIN_QUERY_LENGTH
  /\ (addr.last.op = "settled" /\ addr.last.aborted) =>
       addr.suggestions = addr.last.suggestions /\ addr.status = addr.last.status
  /\ (addr.last.op = "effect" /\ addr.last.branch = "short") =>
       addr.suggestions = <<>> /\ addr.status = "idle" /\ Live(addr.requests) = {}

\* the fetch for the query before has settled, aborted, while the fetch
\* for the new query is loading
C38_Witness ==
  /\ addr.last.op = "settled" /\ addr.last.aborted
  /\ addr.status = "loading" /\ Cardinality(Live(addr.requests)) = 1

====
